---- MODULE Spec2Model ----
(***************************************************************************)
(* A model of notelib's pipeline core: the graph validator and scheduler   *)
(* (pipelines/services.py), and the run orchestrator in its synchronous    *)
(* (executions/services.py) and asynchronous (executions/tasks.py) modes.  *)
(***************************************************************************)
EXTENDS Integers, Sequences, FiniteSets, TLC

\* ------------------------------------------------------------------ bounds

\* Largest number of nodes of a graph handed to the graph functions.
MaxNodes == 3

\* Largest number of edges of a graph handed to the graph functions.
MaxEdges == 3

\* ------------------------------------------------------------- vocabulary

IdPool == <<"a", "b", "c", "d", "e", "f">>

\* A value a JSON object does not carry (dict.get returns None).
None == "None"

\* FeatureMeta rows: the feature catalog.
FeatureCatalog == { [name |-> "f1", hash |-> "h1"] }

Range(s) == { s[i] : i \in DOMAIN s }

\* The first n ids of the pool, in order: ids are opaque, so a graph over any
\* n distinct ids is one of these up to renaming.
NodeIdSeq(n) == SubSeq(IdPool, 1, n)

SeqsUpTo(S, n) == UNION { [1..k -> S] : k \in 0..n }

\* ------------------------------------------------- pipelines/services.py

\* defaultdict(list) adj: adj[n] lists the targets of n's edges in edge order.
Adj(edges, n) ==
  LET F[i \in 0..Len(edges)] ==
        IF i = 0 THEN <<>>
        ELSE IF edges[i].from = n THEN Append(F[i - 1], edges[i].to) ELSE F[i - 1]
  IN F[Len(edges)]

NodeIdsOf(graph) == { graph.nodes[i].id : i \in DOMAIN graph.nodes }

\* One entry of validate_graph's error list.
Err(kind, node, idx, path) == [kind |-> kind, node |-> node, idx |-> idx, path |-> path]

\* _check_cycles.dfs: three-colour depth-first search. state maps a node id to
\* 0 (unvisited), 1 (in progress) or 2 (done); path is the stack from the root.
RECURSIVE dfs(_, _, _, _), dfs_neighbors(_, _, _, _, _)
dfs_two_colour(edges, state, node_id, path) ==
  IF state[node_id] # 0
    THEN [cycle |-> FALSE, state |-> state, errors |-> <<>>]
  ELSE dfs_neighbors(edges, [state EXCEPT ![node_id] = 1], node_id, path, 1)

dfs(edges, state, node_id, path) ==
  IF state[node_id] = 1
    THEN [cycle |-> TRUE, state |-> state,
          errors |-> << Err("Cycle detected", None, 0, Append(path, node_id)) >>]
  ELSE IF state[node_id] = 2
    THEN [cycle |-> FALSE, state |-> state, errors |-> <<>>]
  ELSE dfs_neighbors(edges, [state EXCEPT ![node_id] = 1], node_id, path, 1)

dfs_neighbors(edges, state, node_id, path, i) ==
  LET nbrs == Adj(edges, node_id) IN
  IF i > Len(nbrs)
    THEN [cycle |-> FALSE, state |-> [state EXCEPT ![node_id] = 2], errors |-> <<>>]
  ELSE LET r == dfs(edges, state, nbrs[i], Append(path, node_id)) IN
       IF r.cycle THEN r ELSE dfs_neighbors(edges, r.state, node_id, path, i + 1)

\* _check_cycles: the DFS from every node still unvisited, in node order.
RECURSIVE check_cycles_from(_, _, _, _)
check_cycles_from(nodes, edges, state, i) ==
  IF i > Len(nodes) THEN [cycle |-> FALSE, errors |-> <<>>]
  ELSE IF state[nodes[i].id] = 0
    THEN LET r == dfs(edges, state, nodes[i].id, <<>>) IN
         IF r.cycle THEN [cycle |-> TRUE, errors |-> r.errors]
         ELSE check_cycles_from(nodes, edges, r.state, i + 1)
  ELSE check_cycles_from(nodes, edges, state, i + 1)

check_cycles(nodes, edges) ==
  check_cycles_from(nodes, edges, [n \in { nodes[i].id : i \in DOMAIN nodes } |-> 0], 1)

\* validate_graph's pass over the nodes: the errors of node idx, given the ids seen.
NodeErrors(node, idx, seen) ==
  IF node.id = "" \/ node.id = None
    THEN << Err("missing 'id'", None, idx, <<>>) >>
  ELSE (IF node.id \in seen THEN << Err("Duplicate node id", node.id, idx, <<>>) >> ELSE <<>>)
       \o (IF node.feature_name = None /\ node.feature_hash = None
             THEN << Err("missing feature reference", node.id, idx, <<>>) >>
           ELSE IF node.feature_hash # None
                   /\ ~ \E f \in FeatureCatalog : f.hash = node.feature_hash
             THEN << Err("Feature not found", node.id, idx, <<>>) >>
           ELSE <<>>)

RECURSIVE validate_nodes(_, _, _, _)
validate_nodes(nodes, i, seen, errors) ==
  IF i > Len(nodes) THEN [node_ids |-> seen, errors |-> errors]
  ELSE validate_nodes(nodes, i + 1,
         IF nodes[i].id = "" \/ nodes[i].id = None THEN seen ELSE seen \cup {nodes[i].id},
         errors \o NodeErrors(nodes[i], i - 1, seen))

\* validate_graph's pass over the edges.
EdgeErrors(edge, idx, node_ids) ==
  (IF edge.from \notin node_ids
     THEN << Err("source node not found", edge.from, idx, <<>>) >> ELSE <<>>)
  \o (IF edge.to \notin node_ids
        THEN << Err("target node not found", edge.to, idx, <<>>) >> ELSE <<>>)

RECURSIVE validate_edges(_, _, _, _)
validate_edges(edges, i, node_ids, errors) ==
  IF i > Len(edges) THEN errors
  ELSE validate_edges(edges, i + 1, node_ids, errors \o EdgeErrors(edges[i], i - 1, node_ids))

\* _check_connectivity: the isolated nodes (logged as warnings only).
check_connectivity(nodes, edges) ==
  { nodes[i].id : i \in { j \in DOMAIN nodes :
      ~ \E k \in DOMAIN edges : edges[k].from = nodes[j].id \/ edges[k].to = nodes[j].id } }

\* validate_graph: (is_valid, errors); structural errors short-circuit the
\* cycle check, the connectivity pass never adds an error.
validate_graph(graph) ==
  LET vn == validate_nodes(graph.nodes, 1, {}, <<>>)
      structural == validate_edges(graph.edges, 1, vn.node_ids, vn.errors)
  IN IF structural # <<>>
       THEN [valid |-> FALSE, errors |-> structural]
     ELSE LET c == check_cycles(graph.nodes, graph.edges) IN
          [valid |-> Len(c.errors) = 0, errors |-> c.errors]

\* Insertion order of a dict's keys: each key at its first occurrence.
KeyOrder(seq) ==
  LET F[i \in 0..Len(seq)] ==
        IF i = 0 THEN <<>>
        ELSE IF seq[i] \in Range(F[i - 1]) THEN F[i - 1] ELSE Append(F[i - 1], seq[i])
  IN F[Len(seq)]

InDegreeOf(edges, k) == Cardinality({ i \in DOMAIN edges : edges[i].to = k })

\* topological_sort, one neighbour of the dequeued node: its in-degree is
\* decremented and it is enqueued when that reaches zero.
kahn_relax_off_by_one(in_degree, queue, neighbor) ==
  [in_degree |-> [in_degree EXCEPT ![neighbor] = @ - 1],
   queue |-> IF in_degree[neighbor] - 1 = 1 THEN Append(queue, neighbor) ELSE queue]

kahn_relax(in_degree, queue, neighbor) ==
  [in_degree |-> [in_degree EXCEPT ![neighbor] = @ - 1],
   queue |-> IF in_degree[neighbor] - 1 = 0 THEN Append(queue, neighbor) ELSE queue]

RECURSIVE kahn_neighbors(_, _, _, _)
kahn_neighbors(nbrs, i, in_degree, queue) ==
  IF i > Len(nbrs) THEN [in_degree |-> in_degree, queue |-> queue]
  ELSE LET r == kahn_relax(in_degree, queue, nbrs[i]) IN
       kahn_neighbors(nbrs, i + 1, r.in_degree, r.queue)

\* Kahn's loop: while queue: popleft, append to result, relax the neighbours.
RECURSIVE kahn(_, _, _, _)
kahn(edges, in_degree, queue, result) ==
  IF queue = <<>> THEN result
  ELSE LET r == kahn_neighbors(Adj(edges, Head(queue)), 1, in_degree, Tail(queue)) IN
       kahn(edges, r.in_degree, r.queue, Append(result, Head(queue)))

\* topological_sort: the order, or raised when the result does not hold as
\* many entries as the graph has nodes (PipelineValidationError).
topological_sort(graph) ==
  LET keys == KeyOrder([i \in DOMAIN graph.nodes |-> graph.nodes[i].id]
                       \o [i \in DOMAIN graph.edges |-> graph.edges[i].to])
      in_degree == [k \in Range(keys) |-> InDegreeOf(graph.edges, k)]
      queue == SelectSeq(keys, LAMBDA k : in_degree[k] = 0)
      result == kahn(graph.edges, in_degree, queue, <<>>)
  IN IF Len(result) # Len(graph.nodes)
       THEN [raised |-> TRUE, order |-> <<>>]
     ELSE [raised |-> FALSE, order |-> result]

\* get_node_dependencies: the sources of the edges into node_id, in edge order.
get_node_dependencies(graph, node_id) ==
  LET F[i \in 0..Len(graph.edges)] ==
        IF i = 0 THEN <<>>
        ELSE IF graph.edges[i].to = node_id
          THEN Append(F[i - 1], graph.edges[i].from) ELSE F[i - 1]
  IN F[Len(graph.edges)]

\* get_execution_layers, one neighbour of a node of the current layer.
layer_relax_off_by_one(in_degree, next_layer, neighbor) ==
  [in_degree |-> [in_degree EXCEPT ![neighbor] = @ - 1],
   next_layer |-> IF in_degree[neighbor] - 1 = 1 THEN Append(next_layer, neighbor)
                  ELSE next_layer]

layer_relax_no_decrement(in_degree, next_layer, neighbor) ==
  [in_degree |-> in_degree,
   next_layer |-> IF in_degree[neighbor] - 1 = 0 THEN Append(next_layer, neighbor)
                  ELSE next_layer]

layer_relax(in_degree, next_layer, neighbor) ==
  [in_degree |-> [in_degree EXCEPT ![neighbor] = @ - 1],
   next_layer |-> IF in_degree[neighbor] - 1 = 0 THEN Append(next_layer, neighbor)
                  ELSE next_layer]

RECURSIVE layer_neighbors(_, _, _, _)
layer_neighbors(nbrs, i, in_degree, next_layer) ==
  IF i > Len(nbrs) THEN [in_degree |-> in_degree, next_layer |-> next_layer]
  ELSE LET r == layer_relax(in_degree, next_layer, nbrs[i]) IN
       layer_neighbors(nbrs, i + 1, r.in_degree, r.next_layer)

\* for node_id in current_layer: for neighbor in adj[node_id]: ...
RECURSIVE layer_nodes(_, _, _, _, _)
layer_nodes(edges, current_layer, j, in_degree, next_layer) ==
  IF j > Len(current_layer) THEN [in_degree |-> in_degree, next_layer |-> next_layer]
  ELSE LET r == layer_neighbors(Adj(edges, current_layer[j]), 1, in_degree, next_layer) IN
       layer_nodes(edges, current_layer, j + 1, r.in_degree, r.next_layer)

\* while current_layer: layers.append(current_layer); current_layer = next_layer
RECURSIVE bfs_layers(_, _, _, _)
bfs_layers(edges, in_degree, current_layer, layers) ==
  IF current_layer = <<>> THEN layers
  ELSE LET r == layer_nodes(edges, current_layer, 1, in_degree, <<>>) IN
       bfs_layers(edges, r.in_degree, r.next_layer, Append(layers, current_layer))

\* get_execution_layers: the layers, or raised (KeyError) when an edge targets
\* an id that is no node: in_degree is a plain dict here.
get_execution_layers(graph) ==
  LET keys == KeyOrder([i \in DOMAIN graph.nodes |-> graph.nodes[i].id])
      in_degree == [k \in Range(keys) |-> InDegreeOf(graph.edges, k)]
  IN IF \E i \in DOMAIN graph.edges : graph.edges[i].to \notin Range(keys)
       THEN [raised |-> TRUE, layers |-> <<>>]
     ELSE [raised |-> FALSE,
           layers |-> bfs_layers(graph.edges, in_degree,
                                 SelectSeq(keys, LAMBDA k : in_degree[k] = 0), <<>>)]

\* ------------------------------------------------------------------ state

\* The graph functions applied to one input: the graph handed over, the
\* function called ("none" before the call) and what it returned.
VARIABLES arg_graph, called, ret

\* The Pipeline row (graph, is_valid, is_active, validation_errors, version),
\* the position of the update handler, and the number of updates so far.
VARIABLES pipeline, upd_pc, edits

\* The PipelineRun row (status None before create_run), its StepRun rows by
\* node id, and the graph as it was when create_run read it.
VARIABLES run, steps, snapshot

\* cancel_run's position: "idle" when no cancel request is in progress.
VARIABLES cx

\* execute_sync's frame: position, the run object it holds (pipeline graph
\* and output_artefacts as loaded), the execution order and the loop index.
VARIABLES sx

\* The asynchronous side: the master task's position, the execute_step jobs
\* by node id, and the number of queued finalize_run_if_complete tasks.
VARIABLES master, jobs, finalize_queue

\* The artefact store: the file at each hash's final path and at its
\* temporary path ("absent", "partial" or "complete"), the ArtefactMeta row
\* of each hash (None when there is none) and the next primary key.
VARIABLES final, tmp, metas, next_id

\* The store's callers: each process's operation in progress, and the number
\* of operations called so far.
VARIABLES procs, ops_started

\* History of the store, per hash: the create_artefact calls that returned
\* since the hash's blob or row was last deleted, and the initial ref_count
\* of the current row plus the increments minus the decrements that returned.
VARIABLES puts, expected

\* The service calls that have raised so far ("create_run", "cancel_run").
VARIABLES raised

\* The arguments _resolve_inputs is applied to: the run's input_manifest and
\* output_artefacts and the step's node_id (the graph is arg_graph).
VARIABLES arg_inputs

\* One sandboxed execution: what the child process does, what
\* execute_feature hands back (None before the call), and the StepRun row
\* _execute_step then writes.
VARIABLES child, sb, step_run

gvars == <<arg_graph, called, ret>>
\* Whether each artefact row's last_accessed_at is before the retention
\* sweep's cutoff ("old") or not ("recent"), and the sweep: its position, the
\* hashes selected, the one being deleted with the row loaded, and its count.
VARIABLES last_accessed_at, sweep

\* FEATURE_REGISTRY: the two indexes of the FeatureRegistry instance, and the
\* last call that wrote to it (op "none" after construction).
VARIABLES registry, reg_call

fvars == <<registry, reg_call>>
evars == <<raised, arg_inputs, child, sb, step_run>>
xvars == <<evars, last_accessed_at, sweep, fvars>>
pvars == <<pipeline, upd_pc, edits>>
rvars == <<run, steps, snapshot>>
avars == <<master, jobs, finalize_queue>>
svars == <<final, tmp, metas, next_id, procs, ops_started, puts, expected>>
vars == <<arg_graph, called, ret, pipeline, upd_pc, edits, run, steps, snapshot,
          cx, sx, master, jobs, finalize_queue,
          final, tmp, metas, next_id, procs, ops_started, puts, expected,
          raised, arg_inputs, child, sb, step_run, last_accessed_at, sweep,
          registry, reg_call>>

\* ---------------------------------------------------------------- helpers

\* A dict as a function on its key set.
EmptyMap == [k \in {} |-> None]
MapPut(m, k, v) == [x \in (DOMAIN m) \cup {k} |-> IF x = k THEN v ELSE m[x]]

NoGraph == [nodes |-> <<>>, edges |-> <<>>]

Node(id, fname, fhash) == [id |-> id, feature_name |-> fname, feature_hash |-> fhash]
Edge(from, to, in_port) == [from |-> from, to |-> to, in_port |-> in_port]

\* ------------------------------------------ the graph functions, applied

\* Feature references of the nodes handed to the graph functions: by a hash
\* of the catalog, by name only, and none at all.
GraphRefs == { <<None, "h1">>, <<"f1", None>>, <<None, None>> }

\* The nodes IdPool[1..n], node i with the feature reference r[i].
NodesWith(n, r) == [i \in 1..n |-> Node(IdPool[i], r[i][1], r[i][2])]

\* The edges between the first n ids, each with an in_port of ports.
EdgesAmong(n, ports) ==
  { Edge(u, v, p) : u \in Range(NodeIdSeq(n)), v \in Range(NodeIdSeq(n)), p \in ports }

CallTopologicalSort ==
  /\ called = "none"
  /\ called' = "topological_sort"
  /\ ret' = topological_sort(arg_graph)
  /\ UNCHANGED <<arg_graph, xvars, pvars, rvars, cx, sx, avars, svars>>

CallGetExecutionLayers ==
  /\ called = "none"
  /\ called' = "get_execution_layers"
  /\ ret' = get_execution_layers(arg_graph)
  /\ UNCHANGED <<arg_graph, xvars, pvars, rvars, cx, sx, avars, svars>>

CallValidateGraph ==
  /\ called = "none"
  /\ called' = "validate_graph"
  /\ ret' = validate_graph(arg_graph)
  /\ UNCHANGED <<arg_graph, xvars, pvars, rvars, cx, sx, avars, svars>>


\* ------------------------------------------------------ pipelines/views.py

\* Largest number of nodes and of edges of a pipeline's graph.
MaxRunNodes == 3
MaxRunEdges == 2

\* Largest number of updates of the pipeline's graph.
MaxEdits == 1

\* Feature references of a pipeline's nodes: by a hash of the catalog, and by
\* a name the catalog does not hold.
RunRefs == { <<None, "h1">>, <<"fx", None>> }

\* The edges from one of the first n ids to a later one.
ForwardEdges(n) ==
  UNION { { Edge(IdPool[i], IdPool[j], None) : j \in (i + 1)..n } : i \in 1..n }

WithoutNode(graph, id) ==
  [nodes |-> SelectSeq(graph.nodes, LAMBDA n : n.id # id),
   edges |-> SelectSeq(graph.edges, LAMBDA e : e.from # id /\ e.to # id)]

WithoutEdge(graph, i) ==
  [graph EXCEPT !.edges = SubSeq(graph.edges, 1, i - 1)
                          \o SubSeq(graph.edges, i + 1, Len(graph.edges))]

\* The graphs an update request puts in place of graph: one node appended or
\* removed, one edge appended or removed.
EditsOf(graph) ==
  LET n == Len(graph.nodes) IN
    (IF n < MaxRunNodes
       THEN { [graph EXCEPT !.nodes = Append(graph.nodes, Node(IdPool[n + 1], None, "h1"))] }
       ELSE {})
    \cup { WithoutNode(graph, graph.nodes[i].id) : i \in DOMAIN graph.nodes }
    \cup (IF Len(graph.edges) < MaxRunEdges
            THEN { [graph EXCEPT !.edges = Append(graph.edges, e)] : e \in EdgesAmong(n, {None}) }
            ELSE {})
    \cup { WithoutEdge(graph, i) : i \in DOMAIN graph.edges }

\* perform_update, serializer.save(): the new graph is stored (Pipeline.save
\* increments version when the graph changed); is_valid is not yet recomputed.
UpdateSave ==
  /\ upd_pc = "idle"
  /\ edits < MaxEdits
  /\ \E g \in EditsOf(pipeline.graph) :
       pipeline' = [pipeline EXCEPT !.graph = g,
                                    !.version = IF g # pipeline.graph THEN @ + 1 ELSE @]
  /\ upd_pc' = "saved"
  /\ edits' = edits + 1
  /\ UNCHANGED <<gvars, xvars, svars, rvars, cx, sx, avars>>

\* perform_update, validate_and_save: is_valid and validation_errors are
\* recomputed from the stored graph.
UpdateValidate ==
  /\ upd_pc = "saved"
  /\ LET v == validate_graph(pipeline.graph) IN
       pipeline' = [pipeline EXCEPT !.is_valid = v.valid, !.validation_errors = v.errors]
  /\ upd_pc' = "idle"
  /\ UNCHANGED <<gvars, xvars, svars, edits, rvars, cx, sx, avars>>

\* ------------------------------------------------- executions/services.py

\* The content hash create_artefact returns for the result of a node.
HashPool == <<"art_a", "art_b", "art_c", "art_d", "art_e", "art_f">>
ArtefactOf(node_id) == HashPool[CHOOSE i \in DOMAIN IdPool : IdPool[i] = node_id]

\* Input manifests of a run: none, and a literal for node a's port "input".
Manifests == { EmptyMap, [n \in {"a"} |-> [p \in {"input"} |-> "lit"]] }

\* create_run's catalog lookup: by hash when the node has one, else by name.
FeatureResolves(node) ==
  IF node.feature_hash \notin {None, ""}
    THEN \E f \in FeatureCatalog : f.hash = node.feature_hash
  ELSE IF node.feature_name \notin {None, ""}
    THEN \E f \in FeatureCatalog : f.name = node.feature_name
  ELSE FALSE

\* StepRun.max_attempts: the default every StepRun is created with.
max_attempts == 3

NewStep == [status |-> "PENDING", attempts |-> 0, artefact |-> None, bound |-> None]

\* create_run's loop: one PENDING StepRun per node whose feature resolves.
CreatedSteps(graph) ==
  [n \in { graph.nodes[i].id : i \in { j \in DOMAIN graph.nodes : FeatureResolves(graph.nodes[j]) } }
     |-> NewStep]

\* create_run's two checks: the pipeline is valid and active.
runnable_if_active(p) == p.is_active

runnable(p) == p.is_valid /\ p.is_active

\* create_run on a valid, active pipeline, then the view starts execute_sync
\* or queues start_pipeline_run.
CreateRun(mode) ==
  /\ run.status = None
  /\ runnable(pipeline)
  /\ \E manifest \in Manifests :
       run' = [status |-> "PENDING", execution_mode |-> mode,
               input_manifest |-> manifest, output_artefacts |-> EmptyMap]
  /\ steps' = CreatedSteps(pipeline.graph)
  /\ snapshot' = pipeline.graph
  /\ IF mode = "sync"
       THEN sx' = [sx EXCEPT !.pc = "start"] /\ UNCHANGED master
       ELSE master' = "queued" /\ UNCHANGED sx
  /\ UNCHANGED <<gvars, xvars, svars, pvars, cx, jobs, finalize_queue>>


\* create_run on a pipeline that is invalid or inactive: ValueError, before
\* any row is created.
CreateRunRaise ==
  /\ run.status = None
  /\ ~runnable(pipeline)
  /\ raised' = raised \cup {"create_run"}
  /\ UNCHANGED <<gvars, fvars, arg_inputs, child, sb, step_run, last_accessed_at, sweep, svars, pvars, rvars, cx, sx, avars>>

\* The run status both execution paths compute from the StepRun rows.
StatusFromStepsAllFailed(rows) ==
  IF \A n \in DOMAIN rows : rows[n].status = "FAILED" THEN "FAILED" ELSE "SUCCESS"

StatusFromSteps(rows) ==
  IF Cardinality({ n \in DOMAIN rows : rows[n].status = "FAILED" }) > 0
    THEN "FAILED" ELSE "SUCCESS"

\* _resolve_inputs: the manifest's bindings of the node, then, for every edge
\* into the node whose source has an entry in output_artefacts, the loaded
\* artefact bound to the edge's in_port ("input" when the edge names none).
RECURSIVE resolve_edges(_, _, _, _, _)
resolve_edges(edges, i, output_artefacts, node_id, inputs) ==
  IF i > Len(edges) THEN inputs
  ELSE IF edges[i].to = node_id /\ edges[i].from \in DOMAIN output_artefacts
    THEN resolve_edges(edges, i + 1, output_artefacts, node_id,
           MapPut(inputs, IF edges[i].in_port = None THEN "input" ELSE edges[i].in_port,
                  output_artefacts[edges[i].from]))
  ELSE resolve_edges(edges, i + 1, output_artefacts, node_id, inputs)

resolve_inputs_manifest_wins(manifest, output_artefacts, graph, node_id) ==
  LET from_edges == resolve_edges(graph.edges, 1, output_artefacts, node_id, EmptyMap)
      bindings == IF node_id \in DOMAIN manifest THEN manifest[node_id] ELSE EmptyMap
  IN [p \in DOMAIN from_edges \cup DOMAIN bindings |->
        IF p \in DOMAIN bindings THEN bindings[p] ELSE from_edges[p]]

resolve_inputs(manifest, output_artefacts, graph, node_id) ==
  resolve_edges(graph.edges, 1, output_artefacts, node_id,
                IF node_id \in DOMAIN manifest THEN manifest[node_id] ELSE EmptyMap)

\* The output_artefacts saved by _execute_step: the mapping of the run object
\* the caller holds, with the node's entry set.
SavedOutputs(stored, held, node_id, hash) == MapPut(held, node_id, hash)

\* What the sandbox does with one invocation.
Outcomes == {"ok", "SandboxExecutionError"}

\* execute_sync up to its loop: the run is loaded with its pipeline,
\* mark_running, topological_sort of the graph loaded; a raise is caught by
\* the outer handler, which marks the run FAILED and re-raises.
SyncStart ==
  /\ sx.pc = "start"
  /\ LET ts == topological_sort(pipeline.graph) IN
       IF ts.raised
         THEN /\ run' = [run EXCEPT !.status = "FAILED"]
              /\ sx' = [sx EXCEPT !.pc = "raised", !.graph = pipeline.graph]
         ELSE /\ run' = [run EXCEPT !.status = "RUNNING"]
              /\ sx' = [pc |-> "loop", graph |-> pipeline.graph,
                        output_artefacts |-> run.output_artefacts,
                        order |-> ts.order, idx |-> 1]
  /\ UNCHANGED <<gvars, xvars, svars, pvars, cx, steps, snapshot, avars>>

\* The loop's StepRun.objects.get and _execute_step's mark_running. A node
\* without a StepRun raises DoesNotExist outside the per-step handler.
SyncStepBegin ==
  /\ sx.pc = "loop"
  /\ sx.idx <= Len(sx.order)
  /\ LET node_id == sx.order[sx.idx] IN
       IF node_id \in DOMAIN steps
         THEN /\ steps' = [steps EXCEPT ![node_id].status = "RUNNING",
                                        ![node_id].attempts = @ + 1]
              /\ sx' = [sx EXCEPT !.pc = "step"]
              /\ UNCHANGED run
         ELSE /\ run' = [run EXCEPT !.status = "FAILED"]
              /\ sx' = [sx EXCEPT !.pc = "raised"]
              /\ UNCHANGED steps
  /\ UNCHANGED <<gvars, xvars, svars, pvars, cx, snapshot, avars>>

\* The rest of _execute_step: inputs resolved, the sandbox run; on success
\* the artefact is created, mark_success, and output_artefacts is saved from
\* the run object held; on failure mark_failed, and the loop goes on.
SyncStepEnd ==
  /\ sx.pc = "step"
  /\ LET node_id == sx.order[sx.idx]
         inputs == resolve_inputs(run.input_manifest, sx.output_artefacts, sx.graph, node_id)
     IN \E outcome \in Outcomes :
          IF outcome = "ok"
            THEN /\ steps' = [steps EXCEPT ![node_id].status = "SUCCESS",
                                           ![node_id].artefact = ArtefactOf(node_id),
                                           ![node_id].bound = inputs]
                 /\ sx' = [sx EXCEPT !.pc = "loop", !.idx = @ + 1,
                             !.output_artefacts = MapPut(@, node_id, ArtefactOf(node_id))]
                 /\ run' = [run EXCEPT !.output_artefacts =
                              SavedOutputs(@, sx.output_artefacts, node_id, ArtefactOf(node_id))]
            ELSE /\ steps' = [steps EXCEPT ![node_id].status = "FAILED",
                                           ![node_id].bound = inputs]
                 /\ sx' = [sx EXCEPT !.pc = "loop", !.idx = @ + 1]
                 /\ UNCHANGED run
  /\ UNCHANGED <<gvars, xvars, svars, pvars, cx, snapshot, avars>>

\* After the loop: FAILED when a step is FAILED, else SUCCESS; return run.
SyncFinish ==
  /\ sx.pc = "loop"
  /\ sx.idx > Len(sx.order)
  /\ run' = [run EXCEPT !.status = StatusFromSteps(steps)]
  /\ sx' = [sx EXCEPT !.pc = "returned"]
  /\ UNCHANGED <<gvars, xvars, svars, pvars, cx, steps, snapshot, avars>>

\* cancel_run's check of the status of the run loaded.
cancellable_any(status) == TRUE

cancellable(status) == status \in {"PENDING", "RUNNING"}

\* cancel_run on a run that is neither PENDING nor RUNNING: ValueError.
CancelRaise ==
  /\ cx = "idle"
  /\ run.status # None
  /\ ~cancellable(run.status)
  /\ raised' = raised \cup {"cancel_run"}
  /\ UNCHANGED <<gvars, fvars, arg_inputs, child, sb, step_run, last_accessed_at, sweep, svars, pvars, rvars, cx, sx, avars>>

\* cancel_run up to its first update: the run is loaded, a status other than
\* PENDING or RUNNING raises ValueError, and the PENDING steps become SKIPPED.
CancelBegin ==
  /\ cx = "idle"
  /\ run.status # None
  /\ cancellable(run.status)
  /\ steps' = [n \in DOMAIN steps |->
                 IF steps[n].status = "PENDING" THEN [steps[n] EXCEPT !.status = "SKIPPED"]
                 ELSE steps[n]]
  /\ cx' = "fail"
  /\ UNCHANGED <<gvars, xvars, svars, pvars, run, snapshot, sx, avars>>

\* cancel_run's second update: the RUNNING steps become FAILED.
CancelFail ==
  /\ cx = "fail"
  /\ steps' = [n \in DOMAIN steps |->
                 IF steps[n].status = "RUNNING" THEN [steps[n] EXCEPT !.status = "FAILED"]
                 ELSE steps[n]]
  /\ cx' = "mark"
  /\ UNCHANGED <<gvars, xvars, svars, pvars, run, snapshot, sx, avars>>

\* cancel_run's mark_cancelled, from the run object loaded at the start, and
\* the return.
CancelMark ==
  /\ cx = "mark"
  /\ run' = [run EXCEPT !.status = "CANCELLED"]
  /\ cx' = "idle"
  /\ UNCHANGED <<gvars, xvars, svars, pvars, steps, snapshot, sx, avars>>


\* ---------------------------------------------------- executions/tasks.py

\* The retries of an execute_step task after which it gives up.
max_retries == 3

NewJob == [pc |-> "queued", retries |-> 0, result |-> None,
           graph |-> NoGraph, output_artefacts |-> EmptyMap]

\* start_pipeline_run: the run is loaded with its pipeline, mark_running, the
\* layers of the graph loaded are computed and one execute_step job per node
\* of every layer is submitted (each layer's signatures as one Celery group),
\* all layers at once. A raise marks the run FAILED.
MasterStart ==
  /\ master = "queued"
  /\ LET ls == get_execution_layers(pipeline.graph) IN
       IF ls.raised
         THEN /\ run' = [run EXCEPT !.status = "FAILED"]
              /\ master' = "raised"
              /\ UNCHANGED jobs
         ELSE /\ run' = [run EXCEPT !.status = "RUNNING"]
              /\ master' = "done"
              /\ jobs' = [n \in UNION { Range(ls.layers[i]) : i \in DOMAIN ls.layers } |-> NewJob]
  /\ UNCHANGED <<gvars, xvars, svars, pvars, cx, steps, snapshot, sx, finalize_queue>>

\* ExecutionService._get_dependencies(run, step): the direct dependencies of
\* the step's node in the run's pipeline graph.
get_dependencies(graph, node_id) == get_node_dependencies(graph, node_id)

\* execute_step's dependency gate, in the order of the dependencies: a
\* dependency without a StepRun raises DoesNotExist, the first one that is
\* not SUCCESS skips the step, else the step runs.
RECURSIVE gate(_, _, _)
gate(deps, i, rows) ==
  IF i > Len(deps) THEN "run"
  ELSE IF deps[i] \notin DOMAIN rows THEN "raise"
  ELSE IF rows[deps[i]].status # "SUCCESS" THEN "skip"
  ELSE gate(deps, i + 1, rows)

\* execute_step's handler of an exception: the task is retried while
\* retries < max_retries, else the step is marked FAILED and the task ends.
JobAfterException(job) ==
  IF job.retries < max_retries
    THEN [NewJob EXCEPT !.retries = job.retries + 1]
    ELSE [NewJob EXCEPT !.pc = "done", !.retries = job.retries, !.result = "failed"]

StepsAfterException(rows, node_id, job) ==
  IF job.retries >= max_retries /\ node_id \in DOMAIN rows
    THEN [rows EXCEPT ![node_id].status = "FAILED"]
    ELSE rows

\* execute_step up to the sandbox: the run and the step are loaded, the gate
\* is checked, and _execute_step marks the step RUNNING.
JobBegin(node_id) ==
  /\ node_id \in DOMAIN jobs
  /\ jobs[node_id].pc = "queued"
  /\ LET job == jobs[node_id]
         g == IF node_id \in DOMAIN steps
                THEN gate(get_dependencies(pipeline.graph, node_id), 1, steps)
                ELSE "raise"
     IN CASE g = "raise" ->
               /\ jobs' = [jobs EXCEPT ![node_id] = JobAfterException(job)]
               /\ steps' = StepsAfterException(steps, node_id, job)
          [] g = "skip" ->
               /\ jobs' = [jobs EXCEPT ![node_id] =
                             [NewJob EXCEPT !.pc = "done", !.retries = job.retries,
                                            !.result = "skipped"]]
               /\ steps' = [steps EXCEPT ![node_id].status = "SKIPPED"]
          [] g = "run" ->
               /\ jobs' = [jobs EXCEPT ![node_id] =
                             [job EXCEPT !.pc = "running", !.graph = pipeline.graph,
                                         !.output_artefacts = run.output_artefacts]]
               /\ steps' = [steps EXCEPT ![node_id].status = "RUNNING",
                                         ![node_id].attempts = @ + 1]
  /\ UNCHANGED <<gvars, xvars, svars, pvars, cx, run, snapshot, sx, master, finalize_queue>>

\* The rest of execute_step: _execute_step resolves the inputs and runs the
\* sandbox. On success: artefact, mark_success, output_artefacts saved,
\* finalize_run_if_complete queued. On failure: mark_failed, and the
\* exception goes to the task's handler.
JobEnd(node_id) ==
  /\ node_id \in DOMAIN jobs
  /\ jobs[node_id].pc = "running"
  /\ LET job == jobs[node_id]
         inputs == resolve_inputs(run.input_manifest, job.output_artefacts, job.graph, node_id)
     IN \E outcome \in Outcomes :
          IF outcome = "ok"
            THEN /\ steps' = [steps EXCEPT ![node_id].status = "SUCCESS",
                                           ![node_id].artefact = ArtefactOf(node_id),
                                           ![node_id].bound = inputs]
                 /\ run' = [run EXCEPT !.output_artefacts =
                              SavedOutputs(@, job.output_artefacts, node_id, ArtefactOf(node_id))]
                 /\ jobs' = [jobs EXCEPT ![node_id] =
                               [NewJob EXCEPT !.pc = "done", !.retries = job.retries,
                                              !.result = "success"]]
                 /\ finalize_queue' = finalize_queue + 1
            ELSE /\ steps' = StepsAfterException(
                               [steps EXCEPT ![node_id].status = "FAILED",
                                             ![node_id].bound = inputs], node_id, job)
                 /\ jobs' = [jobs EXCEPT ![node_id] = JobAfterException(job)]
                 /\ UNCHANGED <<run, finalize_queue>>
  /\ UNCHANGED <<gvars, xvars, svars, pvars, cx, snapshot, sx, master>>

\* finalize_run_if_complete: nothing while a step is PENDING or RUNNING, else
\* the run is FAILED when a step is FAILED and SUCCESS otherwise.
Finalize ==
  /\ finalize_queue > 0
  /\ finalize_queue' = finalize_queue - 1
  /\ IF \E n \in DOMAIN steps : steps[n].status \in {"PENDING", "RUNNING"}
       THEN UNCHANGED run
       ELSE run' = [run EXCEPT !.status = StatusFromSteps(steps)]
  /\ UNCHANGED <<gvars, xvars, svars, pvars, cx, steps, snapshot, sx, master, jobs>>

\* ---------------------------------- artefacts/storage.py, artefacts/services.py

\* Largest number of store operations called.
MaxStoreOps == 3

\* The contents stored, their SHA-256 hashes, and the content whose
\* compressed size exceeds max_size.
Values == {"v", "w", "big"}
HashOf(value) == IF value = "v" THEN "hv" ELSE IF value = "w" THEN "hw" ELSE "hbig"
Hashes == { HashOf(value) : value \in Values }
TooLarge(hash) == hash = "hbig"

\* The processes calling the store.
Procs == {"p1", "p2"}

IdleProc == [op |-> "none", pc |-> "idle", h |-> None, force |-> FALSE, fd |-> "none",
             held |-> {}, db_hashes |-> {}, fs_orphans |-> 0, db_orphans |-> 0,
             wrote |-> FALSE, ret |-> None]

\* The ArtefactMeta row of hash h, when there is one.
Row(h) == CHOOSE r \in metas[h] : TRUE

\* Process p can call a store operation.
CanCall(p) == procs[p].pc \in {"idle", "done"} /\ ops_started < MaxStoreOps

\* The operation of the record c ends with result r.
Finished(c, r) == [c EXCEPT !.pc = "done", !.ret = r, !.fd = "none", !.held = {},
                            !.db_hashes = {}]

\* The operation of p ends with result r.
Done(p, r) == Finished(procs[p], r)

\* The descriptors left after the file at path `at` of hash h is unlinked or
\* replaced (to = "gone"), or renamed to the final path (to = "final").
Redirect(ps, h, at, to) ==
  [q \in DOMAIN ps |->
     IF ps[q].h = h /\ ps[q].fd = at THEN [ps[q] EXCEPT !.fd = to] ELSE ps[q]]

\* ArtefactStorage.exists, file_path.exists(): there is a file at the final
\* path of the hash.
exists_never(files, hash) == FALSE

exists(files, hash) == files[hash] # "absent"

\* create_artefact(obj) is called; ArtefactStorage.save up to the
\* deduplication test: the final path exists, so save returns without
\* writing; or the blob is to be written.
SaveCheck(p) ==
  /\ CanCall(p)
  /\ \E value \in Values :
       LET c == [IdleProc EXCEPT !.op = "create_artefact", !.h = HashOf(value)] IN
       procs' = [procs EXCEPT ![p] = [c EXCEPT !.pc = IF exists(final, c.h) THEN "meta"
                                                                            ELSE "open"]]
  /\ ops_started' = ops_started + 1
  /\ UNCHANGED <<gvars, xvars, pvars, rvars, cx, sx, avars>>
  /\ UNCHANGED <<final, tmp, metas, next_id, puts, expected>>

\* write_bytes on <hash>.tmp, first half: the temporary file is opened for
\* writing, created or truncated.
SaveOpen(p) ==
  /\ procs[p].op = "create_artefact" /\ procs[p].pc = "open"
  /\ tmp' = [tmp EXCEPT ![procs[p].h] = "partial"]
  /\ procs' = [procs EXCEPT ![p].pc = "write", ![p].fd = "tmp", ![p].wrote = TRUE]
  /\ UNCHANGED <<gvars, xvars, pvars, rvars, cx, sx, avars>>
  /\ UNCHANGED <<final, metas, next_id, ops_started, puts, expected>>

\* write_bytes, second half: the payload is written to the open file and the
\* file closed; or the write fails, and the handler unlinks the temporary
\* file if there is one and re-raises.
SaveWrite(p) ==
  /\ procs[p].op = "create_artefact" /\ procs[p].pc = "write"
  /\ LET h == procs[p].h IN
     \E ok \in BOOLEAN :
       IF ok
         THEN /\ tmp' = IF procs[p].fd = "tmp" THEN [tmp EXCEPT ![h] = "complete"] ELSE tmp
              /\ final' = IF procs[p].fd = "final" THEN [final EXCEPT ![h] = "complete"] ELSE final
              /\ procs' = [procs EXCEPT ![p].pc = "rename", ![p].fd = "none"]
         ELSE /\ tmp' = [tmp EXCEPT ![h] = "absent"]
              /\ procs' = [Redirect(procs, h, "tmp", "gone") EXCEPT ![p] = Done(p, "IOError")]
              /\ UNCHANGED final
  /\ UNCHANGED <<gvars, xvars, pvars, rvars, cx, sx, avars>>
  /\ UNCHANGED <<metas, next_id, ops_started, puts, expected>>

\* temp_path.rename(file_path): the temporary file takes the final name; with
\* no temporary file the rename raises, the handler finds nothing to unlink.
SaveRename(p) ==
  /\ procs[p].op = "create_artefact" /\ procs[p].pc = "rename"
  /\ LET h == procs[p].h IN
       IF tmp[h] = "absent"
         THEN /\ procs' = [procs EXCEPT ![p] = Done(p, "FileNotFoundError")]
              /\ UNCHANGED <<final, tmp>>
         ELSE /\ final' = [final EXCEPT ![h] = tmp[h]]
              /\ tmp' = [tmp EXCEPT ![h] = "absent"]
              /\ procs' = [Redirect(Redirect(procs, h, "final", "gone"), h, "tmp", "final")
                             EXCEPT ![p].pc = "meta"]
  /\ UNCHANGED <<gvars, xvars, pvars, rvars, cx, sx, avars>>
  /\ UNCHANGED <<metas, next_id, ops_started, puts, expected>>

\* create_artefact after save: a payload over max_size is deleted from the
\* filesystem and ValueError raised; an existing metadata row is returned;
\* otherwise the row is to be created.
CreateMeta(p) ==
  /\ procs[p].op = "create_artefact" /\ procs[p].pc = "meta"
  /\ LET h == procs[p].h IN
       IF TooLarge(h)
         THEN /\ final' = [final EXCEPT ![h] = "absent"]
              /\ procs' = [Redirect(procs, h, "final", "gone") EXCEPT ![p] = Done(p, "ValueError")]
              /\ puts' = [puts EXCEPT ![h] = 0]
         ELSE IF metas[h] # {}
           THEN /\ procs' = [procs EXCEPT ![p] = Done(p, h)]
                /\ puts' = [puts EXCEPT ![h] = @ + 1]
                /\ UNCHANGED final
         ELSE /\ procs' = [procs EXCEPT ![p].pc = "insert"]
              /\ UNCHANGED <<final, puts>>
  /\ UNCHANGED <<gvars, xvars, pvars, rvars, cx, sx, avars>>
  /\ UNCHANGED <<tmp, metas, next_id, ops_started, expected>>

\* ArtefactMeta.objects.create: hash is unique, ref_count defaults to 0.
CreateInsert(p) ==
  /\ procs[p].op = "create_artefact" /\ procs[p].pc = "insert"
  /\ LET h == procs[p].h IN
       IF metas[h] # {}
         THEN /\ procs' = [procs EXCEPT ![p] = Done(p, "IntegrityError")]
              /\ UNCHANGED <<metas, next_id, puts, expected>>
         ELSE /\ metas' = [metas EXCEPT ![h] = {[id |-> next_id, ref_count |-> 0]}]
              /\ next_id' = next_id + 1
              /\ procs' = [procs EXCEPT ![p] = Done(p, h)]
              /\ puts' = [puts EXCEPT ![h] = @ + 1]
              /\ expected' = [expected EXCEPT ![h] = 0]
  /\ UNCHANGED <<gvars, xvars, pvars, rvars, cx, sx, avars>>
  /\ UNCHANGED <<final, tmp, ops_started>>

\* ArtefactMeta.can_delete on the row loaded.
can_delete_any(row) == TRUE

can_delete(row) == row.ref_count <= 0

\* delete_artefact(hash_value, force) is called, up to its check: no row
\* returns False; a row that cannot be deleted, without force, raises
\* ValueError.
DeleteLoad(p) ==
  /\ CanCall(p)
  /\ \E h \in Hashes, force \in BOOLEAN :
       LET c == [IdleProc EXCEPT !.op = "delete_artefact", !.h = h, !.force = force] IN
       IF metas[h] = {} THEN procs' = [procs EXCEPT ![p] = Finished(c, "False")]
       ELSE IF ~force /\ ~can_delete(Row(h))
         THEN procs' = [procs EXCEPT ![p] = Finished(c, "ValueError")]
       ELSE procs' = [procs EXCEPT ![p] = [c EXCEPT !.pc = "blob", !.held = metas[h]]]
  /\ ops_started' = ops_started + 1
  /\ UNCHANGED <<gvars, xvars, pvars, rvars, cx, sx, avars>>
  /\ UNCHANGED <<final, tmp, metas, next_id, puts, expected>>

\* storage.delete(hash): the blob is unlinked if it exists.
DeleteBlob(p) ==
  /\ procs[p].op = "delete_artefact" /\ procs[p].pc = "blob"
  /\ LET h == procs[p].h IN
       /\ final' = [final EXCEPT ![h] = "absent"]
       /\ procs' = [Redirect(procs, h, "final", "gone") EXCEPT ![p].pc = "row"]
       /\ puts' = [puts EXCEPT ![h] = 0]
  /\ UNCHANGED <<gvars, xvars, pvars, rvars, cx, sx, avars>>
  /\ UNCHANGED <<tmp, metas, next_id, ops_started, expected>>

\* artefact.delete(): the row loaded is deleted by primary key; return True.
DeleteRow(p) ==
  /\ procs[p].op = "delete_artefact" /\ procs[p].pc = "row"
  /\ LET h == procs[p].h IN
       /\ metas' = [metas EXCEPT ![h] = { r \in @ : \A k \in procs[p].held : r.id # k.id }]
       /\ procs' = [procs EXCEPT ![p] = Done(p, "True")]
       /\ puts' = [puts EXCEPT ![h] = 0]
  /\ UNCHANGED <<gvars, xvars, pvars, rvars, cx, sx, avars>>
  /\ UNCHANGED <<final, tmp, next_id, ops_started, expected>>

\* increment_ref / decrement_ref is to be called: the caller loads the
\* artefact's row.
RefLoad(p) ==
  /\ CanCall(p)
  /\ \E o \in {"increment_ref", "decrement_ref"}, h \in Hashes :
       LET c == [IdleProc EXCEPT !.op = o, !.h = h] IN
       IF metas[h] = {} THEN procs' = [procs EXCEPT ![p] = Finished(c, "DoesNotExist")]
       ELSE procs' = [procs EXCEPT ![p] = [c EXCEPT !.pc = "update", !.held = metas[h]]]
  /\ ops_started' = ops_started + 1
  /\ UNCHANGED <<gvars, xvars, pvars, rvars, cx, sx, avars>>
  /\ UNCHANGED <<final, tmp, metas, next_id, puts, expected>>

\* ref_count = F('ref_count') + delta, saved with update_fields: the database
\* computes the new count from the stored one, not from the copy loaded.
ref_update_from_copy(stored, held, delta) == held + delta

ref_update(stored, held, delta) == stored + delta

\* increment_ref / decrement_ref: the UPDATE by primary key and the
\* refresh_from_db; they return nothing. A row deleted since the load makes
\* save raise.
RefUpdate(p) ==
  /\ procs[p].op \in {"increment_ref", "decrement_ref"} /\ procs[p].pc = "update"
  /\ LET h == procs[p].h
         delta == IF procs[p].op = "increment_ref" THEN 1 ELSE -1
         held == CHOOSE k \in procs[p].held : TRUE
     IN IF \A r \in metas[h] : r.id # held.id
          THEN /\ procs' = [procs EXCEPT ![p] = Done(p, "DatabaseError")]
               /\ UNCHANGED <<metas, expected>>
          ELSE LET count == ref_update(Row(h).ref_count, held.ref_count, delta) IN
               /\ metas' = [metas EXCEPT ![h] = {[Row(h) EXCEPT !.ref_count = count]}]
               /\ procs' = [procs EXCEPT ![p] = Done(p, None)]
               /\ expected' = [expected EXCEPT ![h] = @ + delta]
  /\ UNCHANGED <<gvars, xvars, pvars, rvars, cx, sx, avars>>
  /\ UNCHANGED <<final, tmp, next_id, ops_started, puts>>

\* ArtefactService.cleanup_orphans is called: the hashes of the metadata rows
\* are read.
CleanupList(p) ==
  /\ CanCall(p)
  /\ procs' = [procs EXCEPT ![p] = [IdleProc EXCEPT !.op = "cleanup_orphans", !.pc = "files",
                                      !.db_hashes = { h \in Hashes : metas[h] # {} }]]
  /\ ops_started' = ops_started + 1
  /\ UNCHANGED <<gvars, xvars, pvars, rvars, cx, sx, avars>>
  /\ UNCHANGED <<final, tmp, metas, next_id, puts, expected>>

\* The blobs ArtefactStorage.cleanup_orphans unlinks: every <hash>.zst whose
\* hash is not among existing_hashes.
orphan_files_all(files, existing_hashes) == { h \in Hashes : files[h] # "absent" }

orphan_files(files, existing_hashes) ==
  { h \in Hashes : files[h] # "absent" /\ h \notin existing_hashes }

CleanupFiles(p) ==
  /\ procs[p].op = "cleanup_orphans" /\ procs[p].pc = "files"
  /\ LET gone == orphan_files(final, procs[p].db_hashes) IN
       /\ final' = [h \in Hashes |-> IF h \in gone THEN "absent" ELSE final[h]]
       /\ procs' = [q \in Procs |->
                      IF q = p THEN [procs[p] EXCEPT !.pc = "rows", !.fs_orphans = Cardinality(gone)]
                      ELSE IF procs[q].h \in gone /\ procs[q].fd = "final"
                        THEN [procs[q] EXCEPT !.fd = "gone"]
                      ELSE procs[q]]
       /\ puts' = [h \in Hashes |-> IF h \in gone THEN 0 ELSE puts[h]]
  /\ UNCHANGED <<gvars, xvars, pvars, rvars, cx, sx, avars>>
  /\ UNCHANGED <<tmp, metas, next_id, ops_started, expected>>

\* The loop over the metadata rows: a row whose blob does not exist is
\* deleted; the tuple (fs_orphans, db_orphans) is returned.
CleanupRows(p) ==
  /\ procs[p].op = "cleanup_orphans" /\ procs[p].pc = "rows"
  /\ LET gone == { h \in Hashes : metas[h] # {} /\ ~exists(final, h) } IN
       /\ metas' = [h \in Hashes |-> IF h \in gone THEN {} ELSE metas[h]]
       /\ procs' = [procs EXCEPT ![p] = [Done(p, "tuple") EXCEPT !.db_orphans = Cardinality(gone)]]
       /\ puts' = [h \in Hashes |-> IF h \in gone THEN 0 ELSE puts[h]]
  /\ UNCHANGED <<gvars, xvars, pvars, rvars, cx, sx, avars>>
  /\ UNCHANGED <<final, tmp, next_id, ops_started, expected>>

\* ------------------------------------------ artefacts/services.py, retention

\* get_artefact / load_artefact / stream_artefact on an artefact with a row:
\* the row is saved with update_fields = ['last_accessed_at'], which sets
\* the auto_now field to the current time.
TouchArtefact ==
  /\ \E h \in Hashes :
       /\ metas[h] # {}
       /\ last_accessed_at[h] = "old"
       /\ last_accessed_at' = [last_accessed_at EXCEPT ![h] = "recent"]
  /\ UNCHANGED <<gvars, fvars, evars, sweep, svars, pvars, rvars, cx, sx, avars>>

\* cleanup_old_artefacts is called: the query for the rows with ref_count = 0
\* and last_accessed_at before the cutoff is evaluated, once, when the loop
\* starts.
SweepSelect ==
  /\ sweep.pc = "idle"
  /\ sweep' = [sweep EXCEPT !.pc = "loop",
                            !.selected = { h \in Hashes :
                                             /\ metas[h] # {}
                                             /\ Row(h).ref_count = 0
                                             /\ last_accessed_at[h] = "old" }]
  /\ UNCHANGED <<gvars, fvars, evars, last_accessed_at, svars, pvars, rvars, cx, sx, avars>>

\* The loop's next artefact, delete_artefact(artefact.hash) up to its check:
\* no row returns False, which the loop counts as a deletion; a row that
\* cannot be deleted raises ValueError, which the loop logs.
SweepDeleteLoad ==
  /\ sweep.pc = "loop"
  /\ \E h \in sweep.selected :
       IF metas[h] = {}
         THEN sweep' = [sweep EXCEPT !.selected = @ \ {h},
                                     !.deleted_count = @ + 1]
       ELSE IF ~can_delete(Row(h))
         THEN sweep' = [sweep EXCEPT !.selected = @ \ {h}]
       ELSE sweep' = [sweep EXCEPT !.pc = "blob", !.h = h, !.held = metas[h]]
  /\ UNCHANGED <<gvars, fvars, evars, last_accessed_at, svars, pvars, rvars, cx, sx, avars>>

\* delete_artefact in the loop, storage.delete(hash).
SweepDeleteBlob ==
  /\ sweep.pc = "blob"
  /\ final' = [final EXCEPT ![sweep.h] = "absent"]
  /\ procs' = Redirect(procs, sweep.h, "final", "gone")
  /\ puts' = [puts EXCEPT ![sweep.h] = 0]
  /\ sweep' = [sweep EXCEPT !.pc = "row"]
  /\ UNCHANGED <<gvars, fvars, evars, last_accessed_at, pvars, rvars, cx, sx, avars>>
  /\ UNCHANGED <<tmp, metas, next_id, ops_started, expected>>

\* delete_artefact in the loop, artefact.delete(): the row loaded is deleted
\* by primary key and the deletion is counted.
SweepDeleteRow ==
  /\ sweep.pc = "row"
  /\ metas' = [metas EXCEPT ![sweep.h] = { r \in @ : \A k \in sweep.held : r.id # k.id }]
  /\ puts' = [puts EXCEPT ![sweep.h] = 0]
  /\ sweep' = [sweep EXCEPT !.pc = "loop", !.selected = @ \ {sweep.h}, !.h = None,
                            !.held = {}, !.deleted_count = @ + 1]
  /\ UNCHANGED <<gvars, fvars, evars, last_accessed_at, pvars, rvars, cx, sx, avars>>
  /\ UNCHANGED <<final, tmp, next_id, procs, ops_started, expected>>

\* The loop is over: cleanup_old_artefacts returns deleted_count.
SweepFinish ==
  /\ sweep.pc = "loop"
  /\ sweep.selected = {}
  /\ sweep' = [sweep EXCEPT !.pc = "done"]
  /\ UNCHANGED <<gvars, fvars, evars, last_accessed_at, svars, pvars, rvars, cx, sx, avars>>

\* ------------------------------- executions/services.py, a step's artefact

\* _execute_step of the step of node a, from its create_artefact call on:
\* the call, made once, by process p1.
StepSaveCheck ==
  /\ steps["a"].status = "RUNNING"
  /\ procs["p1"].pc = "idle"
  /\ SaveCheck("p1")

\* _execute_step after create_artefact: when it returned the artefact,
\* mark_success links the row of that hash if there is one, and the hash is
\* saved in the run's output_artefacts; when it raised, the step is marked
\* failed. No reference is counted.
StepMarkSuccess ==
  /\ steps["a"].status = "RUNNING"
  /\ procs["p1"].op = "create_artefact" /\ procs["p1"].pc = "done"
  /\ LET h == procs["p1"].ret IN
       IF h \in Hashes
         THEN /\ steps' = [steps EXCEPT !["a"].status = "SUCCESS",
                                        !["a"].artefact = IF metas[h] # {} THEN h ELSE None]
              /\ run' = [run EXCEPT !.output_artefacts = MapPut(@, "a", h)]
         ELSE /\ steps' = [steps EXCEPT !["a"].status = "FAILED"]
              /\ UNCHANGED run
  /\ UNCHANGED <<gvars, xvars, svars, pvars, snapshot, cx, sx, avars>>

\* artefact.delete() as DeleteRow, with the StepRun rows linked to the row:
\* their artefact is set to NULL (on_delete = SET_NULL).
DeleteRowSetNull(p) ==
  /\ procs[p].op = "delete_artefact" /\ procs[p].pc = "row"
  /\ LET h == procs[p].h
         after == { r \in metas[h] : \A k \in procs[p].held : r.id # k.id }
     IN /\ metas' = [metas EXCEPT ![h] = after]
        /\ procs' = [procs EXCEPT ![p] = Done(p, "True")]
        /\ puts' = [puts EXCEPT ![h] = 0]
        /\ steps' = [n \in DOMAIN steps |->
                       IF steps[n].artefact = h /\ after # metas[h]
                         THEN [steps[n] EXCEPT !.artefact = None] ELSE steps[n]]
  /\ UNCHANGED <<gvars, xvars, pvars, run, snapshot, cx, sx, avars>>
  /\ UNCHANGED <<final, tmp, next_id, ops_started, expected>>
\* ------------------------------------------- notelib_core/registry.py

\* Function names and code hashes of the features registered, and the
\* FeatureDef objects: a feature under each name with each hash (two versions
\* of one function differ in the hash).
FeatureNames == {"f", "g"}
FeatureHashes == {"k1", "k2"}
FeatureDefs == [name : FeatureNames, hash : FeatureHashes]

\* The keys get, is_loaded and unregister are called with.
FeatureKeys == FeatureNames \cup FeatureHashes

\* dict.pop(k, None) and dict.get(k) on a dict held as a function; None is
\* the record without name and hash.
NoFeatureDef == [name |-> None, hash |-> None]
MapPop(m, k) == [x \in (DOMAIN m) \ {k} |-> m[x]]
MapGet(m, k) == IF k \in DOMAIN m THEN m[k] ELSE NoFeatureDef

\* FeatureRegistry.__init__: both indexes empty.
NewRegistry == [features_by_name |-> EmptyMap, features_by_hash |-> EmptyMap]

NoRegistry ==
  /\ registry = NewRegistry
  /\ reg_call = [op |-> "none", key |-> None]

\* FeatureRegistry.get: the name index first, then the hash index (a
\* FeatureDef is truthy, so `or` falls through on a missing name only).
get(reg, key) ==
  IF key \in DOMAIN reg.features_by_name THEN reg.features_by_name[key]
  ELSE MapGet(reg.features_by_hash, key)

\* FeatureRegistry.is_loaded.
is_loaded(reg, key) ==
  key \in DOMAIN reg.features_by_hash \/ key \in DOMAIN reg.features_by_name

\* FeatureRegistry.all: the values of the name index.
all(reg) == { reg.features_by_name[k] : k \in DOMAIN reg.features_by_name }

\* FeatureRegistry.register_feature_def, and register once the FeatureDef is
\* built: both indexes are assigned.
register_feature_def(reg, feature_def) ==
  [features_by_name |-> MapPut(reg.features_by_name, feature_def.name, feature_def),
   features_by_hash |-> MapPut(reg.features_by_hash, feature_def.hash, feature_def)]

\* FeatureRegistry.unregister: a key of the name index pops the name and the
\* hash of the feature found; else a key of the hash index pops the hash and
\* the name of the feature found.
unregister(reg, key) ==
  IF key \in DOMAIN reg.features_by_name
    THEN LET feature == reg.features_by_name[key] IN
         [features_by_name |-> MapPop(reg.features_by_name, key),
          features_by_hash |-> MapPop(reg.features_by_hash, feature.hash)]
  ELSE IF key \in DOMAIN reg.features_by_hash
    THEN LET feature == reg.features_by_hash[key] IN
         [features_by_name |-> MapPop(reg.features_by_name, feature.name),
          features_by_hash |-> MapPop(reg.features_by_hash, key)]
  ELSE reg

\* FeatureRegistry.clear: the name index is cleared.
clear(reg) == [reg EXCEPT !.features_by_name = EmptyMap]

Register ==
  /\ \E feature_def \in FeatureDefs :
       /\ registry' = register_feature_def(registry, feature_def)
       /\ reg_call' = [op |-> "register", key |-> feature_def.hash]
  /\ UNCHANGED <<gvars, evars, last_accessed_at, sweep, svars, pvars, rvars, cx, sx, avars>>

Unregister ==
  /\ \E key \in FeatureKeys :
       /\ registry' = unregister(registry, key)
       /\ reg_call' = [op |-> "unregister", key |-> key]
  /\ UNCHANGED <<gvars, evars, last_accessed_at, sweep, svars, pvars, rvars, cx, sx, avars>>

Clear ==
  /\ registry' = clear(registry)
  /\ reg_call' = [op |-> "clear", key |-> None]
  /\ UNCHANGED <<gvars, evars, last_accessed_at, sweep, svars, pvars, rvars, cx, sx, avars>>

\* ----------------------------------------------------------- initial states

NoCall ==
  /\ arg_graph = NoGraph
  /\ called = "none"
  /\ ret = None

\* perform_create: the row as saved, then validate_and_save.
CreatedPipeline(graph) ==
  LET v == validate_graph(graph) IN
  [graph |-> graph, is_valid |-> v.valid, is_active |-> TRUE,
   validation_errors |-> v.errors, version |-> 1]

NoStoreCall ==
  /\ tmp = [h \in Hashes |-> "absent"]
  /\ procs = [p \in Procs |-> IdleProc]
  /\ ops_started = 0
  /\ puts = [h \in Hashes |-> 0]

\* No sandboxed execution started.
NoChild == [timed_out |-> FALSE, returncode |-> 0, output |-> FALSE,
            stdout |-> "", stderr |-> ""]
NoError == [prefix |-> "", text |-> "", detail |-> <<>>]
NoStepRun == [status |-> "RUNNING", error |-> NoError, stdout |-> "", stderr |-> ""]
NoSandbox == [kind |-> "none", result |-> "", stdout |-> "", stderr |-> "",
              exit_code |-> 0, text |-> "", detail |-> <<>>]

\* No retention sweep started; no row accessed since the cutoff.
IdleSweep == [pc |-> "idle", selected |-> {}, h |-> None, held |-> {}, deleted_count |-> 0]
NoSweep ==
  /\ last_accessed_at = [h \in Hashes |-> "old"]
  /\ sweep = IdleSweep

NoExtra ==
  /\ NoSweep
  /\ NoRegistry
  /\ raised = {}
  /\ arg_inputs = [manifest |-> EmptyMap, output_artefacts |-> EmptyMap, node_id |-> None]
  /\ child = NoChild
  /\ sb = NoSandbox
  /\ step_run = NoStepRun

NoRun ==
  /\ NoExtra
  /\ run = [status |-> None, execution_mode |-> None,
            input_manifest |-> EmptyMap, output_artefacts |-> EmptyMap]
  /\ steps = EmptyMap
  /\ snapshot = NoGraph
  /\ cx = "idle"
  /\ sx = [pc |-> "idle", graph |-> NoGraph, output_artefacts |-> EmptyMap,
           order |-> <<>>, idx |-> 0]
  /\ master = "idle"
  /\ jobs = EmptyMap
  /\ finalize_queue = 0
  /\ NoStoreCall
  /\ final = [h \in Hashes |-> "absent"]
  /\ metas = [h \in Hashes |-> {}]
  /\ next_id = 1
  /\ expected = [h \in Hashes |-> 0]

\* Every graph of at most MaxNodes nodes and MaxEdges edges between them
\* (self-loops and parallel edges included), its nodes all carrying one of
\* the feature references of GraphRefs.
InitGraph ==
  /\ \E n \in 0..MaxNodes, m \in 0..MaxEdges :
       \E r \in GraphRefs, es \in [1..m -> EdgesAmong(n, {None})] :
         arg_graph = [nodes |-> NodesWith(n, [i \in 1..n |-> r]), edges |-> es]
  /\ called = "none"
  /\ ret = None
  /\ pipeline = CreatedPipeline(NoGraph)
  /\ upd_pc = "idle"
  /\ edits = 0
  /\ NoRun

NextGraph ==
  \/ CallTopologicalSort
  \/ CallGetExecutionLayers
  \/ CallValidateGraph

\* The graph functions, each applied to every graph of GraphInputs.
SpecGraph == InitGraph /\ [][NextGraph]_vars

\* topological_sort alone, applied to every graph of InitGraph.
NextSort ==
  \/ CallTopologicalSort

SpecSort == InitGraph /\ [][NextSort]_vars

\* validate_graph alone, applied to every graph of InitGraph.
NextValidate ==
  \/ CallValidateGraph

SpecValidate == InitGraph /\ [][NextValidate]_vars

\* get_execution_layers alone, applied to every graph of InitGraph.
NextLayers ==
  \/ CallGetExecutionLayers

SpecLayers == InitGraph /\ [][NextLayers]_vars

\* The graphs a Pipeline row can hold: the serializer stores the graph as
\* sent, so an edge can name an id that no node declares (here the next id of
\* the pool). Nodes carry a feature hash of the catalog.
InitStoredGraph ==
  /\ \E n \in 0..MaxNodes, m \in 0..MaxEdges :
       \E es \in [1..m -> EdgesAmong(n + 1, {None})] :
         arg_graph = [nodes |-> NodesWith(n, [i \in 1..n |-> <<None, "h1">>]), edges |-> es]
  /\ called = "none"
  /\ ret = None
  /\ pipeline = CreatedPipeline(NoGraph)
  /\ upd_pc = "idle"
  /\ edits = 0
  /\ NoRun

\* topological_sort as execute_sync calls it, on the stored graph.
NextSortStored ==
  \/ CallTopologicalSort

SpecSortStored == InitStoredGraph /\ [][NextSortStored]_vars

\* The registry as constructed, nothing else in progress.
InitRegistry ==
  /\ NoCall
  /\ pipeline = CreatedPipeline(NoGraph)
  /\ upd_pc = "idle"
  /\ edits = 0
  /\ NoRun

NextRegistry ==
  \/ Register
  \/ Unregister
  \/ Clear

SpecRegistry == InitRegistry /\ [][NextRegistry]_vars


\* A pipeline created (perform_create) with a graph of at most MaxRunNodes
\* nodes and MaxRunEdges edges, and no run yet. The nodes are listed in a
\* topological order: every acyclic graph is one of these up to renaming.
InitRun ==
  /\ NoCall
  /\ \E n \in 0..MaxRunNodes, m \in 0..MaxRunEdges :
       \E r \in [1..n -> RunRefs], es \in [1..m -> ForwardEdges(n)] :
         pipeline = CreatedPipeline([nodes |-> NodesWith(n, r), edges |-> es])
  /\ upd_pc = "idle"
  /\ edits = 0
  /\ NoRun

NextSync ==
  \/ CreateRun("sync")
  \/ SyncStart
  \/ SyncStepBegin
  \/ SyncStepEnd
  \/ SyncFinish
  \/ CancelRaise
  \/ CancelBegin
  \/ CancelFail
  \/ CancelMark

\* One run in synchronous mode, with concurrent cancel.
SpecSync == InitRun /\ [][NextSync]_vars

NextSyncEdit ==
  \/ NextSync
  \/ UpdateSave
  \/ UpdateValidate

\* One run in synchronous mode, with concurrent cancel and pipeline updates.
SpecSyncEdit == InitRun /\ [][NextSyncEdit]_vars

\* ------------------------------------------------- executions/sandbox.py

\* Largest exit code of the child process.
MaxExitCode == 2

\* What the child process does: it runs into the timeout or exits with a
\* code, it has or has not written the output file, and it has written to
\* stdout and stderr.
Children ==
  [timed_out : BOOLEAN, returncode : 0..MaxExitCode, output : BOOLEAN,
   stdout : {"", "out"}, stderr : {"", "err"}]

\* The message of the SandboxExecutionError raised for a child.
failure_text_generic(c) == "Sandbox execution error"

failure_text(c) ==
  IF c.timed_out THEN "Feature execution timeout"
  ELSE IF c.returncode # 0 THEN "Feature execution failed (exit code)"
  ELSE "Output file not created by subprocess"

\* execute_feature: (result_bytes, metadata) or SandboxExecutionError. The
\* message carries STDOUT and STDERR except for a timeout.
execute_feature(c) ==
  IF c.timed_out
    THEN [NoSandbox EXCEPT !.kind = "raise", !.text = failure_text(c)]
  ELSE IF c.returncode # 0
    THEN [NoSandbox EXCEPT !.kind = "raise", !.text = failure_text(c),
                           !.exit_code = c.returncode,
                           !.detail = <<c.stdout, c.stderr>>]
  ELSE IF ~c.output
    THEN [NoSandbox EXCEPT !.kind = "raise", !.text = failure_text(c),
                           !.detail = <<c.stdout, c.stderr>>]
  ELSE [NoSandbox EXCEPT !.kind = "return", !.result = "bytes",
                         !.stdout = c.stdout, !.stderr = c.stderr,
                         !.exit_code = c.returncode]

\* StepRun.mark_failed(error_message, stdout, stderr).
mark_failed(step, error_message, stdout, stderr) ==
  [step EXCEPT !.status = "FAILED", !.error = error_message,
               !.stdout = stdout, !.stderr = stderr]

\* _execute_step from the call of the sandbox on: on a result the step is
\* marked SUCCESS and gets the metadata's stdout and stderr, on a
\* SandboxExecutionError it is marked failed with the error text alone.
execute_step(step, c) ==
  LET r == execute_feature(c) IN
  IF r.kind = "return"
    THEN [step EXCEPT !.status = "SUCCESS", !.stdout = r.stdout, !.stderr = r.stderr]
  ELSE mark_failed(step, [prefix |-> "Sandbox execution failed: ",
                          text |-> r.text, detail |-> r.detail], "", "")

InitSandbox ==
  /\ child \in Children
  /\ sb = NoSandbox
  /\ step_run = NoStepRun
  /\ NoSweep
  /\ NoRegistry
  /\ called = "none"
  /\ ret = None
  /\ arg_graph = NoGraph
  /\ arg_inputs = [manifest |-> EmptyMap, output_artefacts |-> EmptyMap, node_id |-> None]
  /\ raised = {}
  /\ pipeline = CreatedPipeline(NoGraph)
  /\ upd_pc = "idle"
  /\ edits = 0
  /\ run = [status |-> None, execution_mode |-> None,
            input_manifest |-> EmptyMap, output_artefacts |-> EmptyMap]
  /\ steps = EmptyMap
  /\ snapshot = NoGraph
  /\ cx = "idle"
  /\ sx = [pc |-> "idle", graph |-> NoGraph, output_artefacts |-> EmptyMap,
           order |-> <<>>, idx |-> 0]
  /\ master = "idle"
  /\ jobs = EmptyMap
  /\ finalize_queue = 0
  /\ NoStoreCall
  /\ final = [h \in Hashes |-> "absent"]
  /\ metas = [h \in Hashes |-> {}]
  /\ next_id = 1
  /\ expected = [h \in Hashes |-> 0]

CallExecuteFeature ==
  /\ called = "none"
  /\ called' = "execute_feature"
  /\ sb' = execute_feature(child)
  /\ UNCHANGED <<arg_graph, ret, fvars, raised, arg_inputs, child, step_run, last_accessed_at, sweep,
                 pvars, rvars, cx, sx, avars, svars>>

CallExecuteStep ==
  /\ called = "none"
  /\ called' = "_execute_step"
  /\ sb' = execute_feature(child)
  /\ step_run' = execute_step(step_run, child)
  /\ UNCHANGED <<arg_graph, ret, fvars, raised, arg_inputs, child, last_accessed_at, sweep,
                 pvars, rvars, cx, sx, avars, svars>>

NextSandbox == CallExecuteFeature \/ CallExecuteStep

\* The sandbox and _execute_step applied to every child of Children.
SpecSandbox == InitSandbox /\ [][NextSandbox]_vars

\* Largest number of edges of the graphs _resolve_inputs is applied to.
MaxResolveEdges == 2

\* The in_port of an edge: absent (the default "input" applies) or "x".
ResolvePorts == {None, "x"}

\* The manifest's bindings of a node: literals for some of the ports.
ResolveBindings ==
  { [p \in ps |-> "lit"] : ps \in SUBSET {"input", "x"} }

\* _resolve_inputs applied to a step of a run: a graph on the nodes a, b, c
\* with edges of any in_port, an input_manifest binding ports of node c, and
\* the output_artefacts of any set of nodes.
InitResolve ==
  /\ \E m \in 0..MaxResolveEdges :
       \E es \in [1..m -> EdgesAmong(3, ResolvePorts)] :
         arg_graph = [nodes |-> NodesWith(3, [i \in 1..3 |-> <<None, "h1">>]), edges |-> es]
  /\ called = "none"
  /\ ret = None
  /\ \E done \in SUBSET Range(NodeIdSeq(3)), node_id \in Range(NodeIdSeq(3)),
        bindings \in ResolveBindings :
       arg_inputs = [manifest |-> [n \in {"c"} |-> bindings],
                     output_artefacts |-> [n \in done |-> ArtefactOf(n)],
                     node_id |-> node_id]
  /\ raised = {}
  /\ child = NoChild
  /\ sb = NoSandbox
  /\ step_run = NoStepRun
  /\ NoSweep
  /\ NoRegistry
  /\ pipeline = CreatedPipeline(NoGraph)
  /\ upd_pc = "idle"
  /\ edits = 0
  /\ run = [status |-> None, execution_mode |-> None,
            input_manifest |-> EmptyMap, output_artefacts |-> EmptyMap]
  /\ steps = EmptyMap
  /\ snapshot = NoGraph
  /\ cx = "idle"
  /\ sx = [pc |-> "idle", graph |-> NoGraph, output_artefacts |-> EmptyMap,
           order |-> <<>>, idx |-> 0]
  /\ master = "idle"
  /\ jobs = EmptyMap
  /\ finalize_queue = 0
  /\ NoStoreCall
  /\ final = [h \in Hashes |-> "absent"]
  /\ metas = [h \in Hashes |-> {}]
  /\ next_id = 1
  /\ expected = [h \in Hashes |-> 0]

CallResolveInputs ==
  /\ called = "none"
  /\ called' = "resolve_inputs"
  /\ ret' = resolve_inputs(arg_inputs.manifest, arg_inputs.output_artefacts,
                           arg_graph, arg_inputs.node_id)
  /\ UNCHANGED <<arg_graph, xvars, pvars, rvars, cx, sx, avars, svars>>

NextResolve == CallResolveInputs

\* _resolve_inputs applied to every input of InitResolve.
SpecResolve == InitResolve /\ [][NextResolve]_vars

\* Feature references of the nodes of the pipelines create_run is called on:
\* those of RunRefs, and none at all.
CreateRefs == RunRefs \cup { <<None, None>> }

\* A pipeline created (perform_create) with any graph of at most MaxRunNodes
\* nodes and MaxRunEdges edges, cycles included, active or deactivated since.
InitCreateRun ==
  /\ NoCall
  /\ \E n \in 0..MaxRunNodes, m \in 0..MaxRunEdges, active \in BOOLEAN :
       \E r \in [1..n -> CreateRefs], es \in [1..m -> EdgesAmong(n, {None})] :
         pipeline = [CreatedPipeline([nodes |-> NodesWith(n, r), edges |-> es])
                       EXCEPT !.is_active = active]
  /\ upd_pc = "idle"
  /\ edits = 0
  /\ NoRun

NextCreateRun ==
  \/ CreateRun("sync")
  \/ CreateRun("async")
  \/ CreateRunRaise

\* create_run called on a pipeline, valid or not, active or not.
SpecCreateRun == InitCreateRun /\ [][NextCreateRun]_vars

NextAsync ==
  \/ CreateRun("async")
  \/ MasterStart
  \/ \E n \in Range(IdPool) : JobBegin(n)
  \/ \E n \in Range(IdPool) : JobEnd(n)
  \/ Finalize
  \/ CancelBegin
  \/ CancelFail
  \/ CancelMark

\* One run in asynchronous mode: the jobs run in any order, with concurrent
\* cancel.
SpecAsync == InitRun /\ [][NextAsync]_vars

\* One run in asynchronous mode that nobody cancels.
NextAsyncRun ==
  \/ CreateRun("async")
  \/ MasterStart
  \/ \E n \in Range(IdPool) : JobBegin(n)
  \/ \E n \in Range(IdPool) : JobEnd(n)
  \/ Finalize

SpecAsyncRun == InitRun /\ [][NextAsyncRun]_vars

\* The ref_counts of the rows a store starts with.
InitRefCounts == {0, 2}

\* What a store holds of hash h at the start: nothing, an artefact (blob and
\* row), or what an interrupted or raced operation leaves behind (a blob
\* without row, a row without blob). No row is created for a payload over
\* max_size.
InitArtefacts(h) ==
  { [blob |-> b, row |-> r] :
      b \in {"absent", "complete"},
      r \in {{}} \cup (IF TooLarge(h) THEN {} ELSE { {[ref_count |-> c]} : c \in InitRefCounts }) }

\* The contents v and w are interchangeable: of two initial stores that differ
\* by exchanging them, the one ranking v's artefact not below w's is kept.
InitRank(a) ==
  (IF a.blob = "complete" THEN Cardinality(InitRefCounts) + 1 ELSE 0)
    + Cardinality({ c \in InitRefCounts : \E r \in a.row : c <= r.ref_count })

HashIndex(h) == IF h = "hv" THEN 1 ELSE IF h = "hw" THEN 2 ELSE 3

InitStore ==
  /\ \E a \in { f \in [Hashes -> UNION { InitArtefacts(h) : h \in Hashes }] :
                   /\ \A h \in Hashes : f[h] \in InitArtefacts(h)
                   /\ InitRank(f["hw"]) <= InitRank(f["hv"]) } :
       /\ final = [h \in Hashes |-> a[h].blob]
       /\ metas = [h \in Hashes |->
                    { [id |-> HashIndex(h), ref_count |-> r.ref_count] : r \in a[h].row }]
       /\ expected = [h \in Hashes |->
                       IF a[h].row = {} THEN 0 ELSE (CHOOSE r \in a[h].row : TRUE).ref_count]
  /\ next_id = Cardinality(Hashes) + 1
  /\ NoStoreCall
  /\ NoCall
  /\ NoExtra
  /\ pipeline = CreatedPipeline(NoGraph)
  /\ upd_pc = "idle"
  /\ edits = 0
  /\ run = [status |-> None, execution_mode |-> None,
            input_manifest |-> EmptyMap, output_artefacts |-> EmptyMap]
  /\ steps = EmptyMap
  /\ snapshot = NoGraph
  /\ cx = "idle"
  /\ sx = [pc |-> "idle", graph |-> NoGraph, output_artefacts |-> EmptyMap,
           order |-> <<>>, idx |-> 0]
  /\ master = "idle"
  /\ jobs = EmptyMap
  /\ finalize_queue = 0

\* The store called by one process: operations one after the other.
NextStoreSeq ==
  \/ SaveCheck("p1")
  \/ SaveOpen("p1")
  \/ SaveWrite("p1")
  \/ SaveRename("p1")
  \/ CreateMeta("p1")
  \/ CreateInsert("p1")
  \/ DeleteLoad("p1")
  \/ DeleteBlob("p1")
  \/ DeleteRow("p1")
  \/ RefLoad("p1")
  \/ RefUpdate("p1")
  \/ CleanupList("p1")
  \/ CleanupFiles("p1")
  \/ CleanupRows("p1")

SpecStoreSeq == InitStore /\ [][NextStoreSeq]_vars

\* The store called by concurrent processes.
NextStore ==
  \/ \E p \in Procs : SaveCheck(p)
  \/ \E p \in Procs : SaveOpen(p)
  \/ \E p \in Procs : SaveWrite(p)
  \/ \E p \in Procs : SaveRename(p)
  \/ \E p \in Procs : CreateMeta(p)
  \/ \E p \in Procs : CreateInsert(p)
  \/ \E p \in Procs : DeleteLoad(p)
  \/ \E p \in Procs : DeleteBlob(p)
  \/ \E p \in Procs : DeleteRow(p)
  \/ \E p \in Procs : RefLoad(p)
  \/ \E p \in Procs : RefUpdate(p)
  \/ \E p \in Procs : CleanupList(p)
  \/ \E p \in Procs : CleanupFiles(p)
  \/ \E p \in Procs : CleanupRows(p)

SpecStore == InitStore /\ [][NextStore]_vars

\* Concurrent processes that add and drop references and delete artefacts.
NextRefs ==
  \/ \E p \in Procs : RefLoad(p)
  \/ \E p \in Procs : RefUpdate(p)
  \/ \E p \in Procs : DeleteLoad(p)
  \/ \E p \in Procs : DeleteBlob(p)
  \/ \E p \in Procs : DeleteRow(p)

SpecRefs == InitStore /\ [][NextRefs]_vars

\* A run of the one-node pipeline a whose step _execute_step has marked
\* RUNNING, and a store as in InitStore.
InitStepStore ==
  /\ \E a \in { f \in [Hashes -> UNION { InitArtefacts(h) : h \in Hashes }] :
                   /\ \A h \in Hashes : f[h] \in InitArtefacts(h)
                   /\ InitRank(f["hw"]) <= InitRank(f["hv"]) } :
       /\ final = [h \in Hashes |-> a[h].blob]
       /\ metas = [h \in Hashes |->
                    { [id |-> HashIndex(h), ref_count |-> r.ref_count] : r \in a[h].row }]
       /\ expected = [h \in Hashes |->
                       IF a[h].row = {} THEN 0 ELSE (CHOOSE r \in a[h].row : TRUE).ref_count]
  /\ next_id = Cardinality(Hashes) + 1
  /\ NoStoreCall
  /\ NoCall
  /\ NoExtra
  /\ pipeline = CreatedPipeline([nodes |-> NodesWith(1, [i \in 1..1 |-> <<None, "h1">>]),
                                 edges |-> <<>>])
  /\ upd_pc = "idle"
  /\ edits = 0
  /\ run = [status |-> "RUNNING", execution_mode |-> "sync",
            input_manifest |-> EmptyMap, output_artefacts |-> EmptyMap]
  /\ steps = [n \in {"a"} |-> [NewStep EXCEPT !.status = "RUNNING", !.attempts = 1]]
  /\ snapshot = NoGraph
  /\ cx = "idle"
  /\ sx = [pc |-> "idle", graph |-> NoGraph, output_artefacts |-> EmptyMap,
           order |-> <<>>, idx |-> 0]
  /\ master = "idle"
  /\ jobs = EmptyMap
  /\ finalize_queue = 0

\* The step records its output while another process deletes artefacts.
NextStepStore ==
  \/ StepSaveCheck
  \/ SaveOpen("p1")
  \/ SaveWrite("p1")
  \/ SaveRename("p1")
  \/ CreateMeta("p1")
  \/ CreateInsert("p1")
  \/ StepMarkSuccess
  \/ DeleteLoad("p2")
  \/ DeleteBlob("p2")
  \/ DeleteRowSetNull("p2")

SpecStepStore == InitStepStore /\ [][NextStepStore]_vars

\* A store in which every row has its blob and every blob its row, called by
\* concurrent processes that create and delete artefacts and clean up orphans.
InitStoreConsistent ==
  /\ InitStore
  /\ \A h \in Hashes : (metas[h] # {}) <=> (final[h] # "absent")

NextStoreConsistent ==
  \/ \E p \in Procs : SaveCheck(p)
  \/ \E p \in Procs : SaveOpen(p)
  \/ \E p \in Procs : SaveWrite(p)
  \/ \E p \in Procs : SaveRename(p)
  \/ \E p \in Procs : CreateMeta(p)
  \/ \E p \in Procs : CreateInsert(p)
  \/ \E p \in Procs : DeleteLoad(p)
  \/ \E p \in Procs : DeleteBlob(p)
  \/ \E p \in Procs : DeleteRow(p)
  \/ \E p \in Procs : CleanupList(p)
  \/ \E p \in Procs : CleanupFiles(p)
  \/ \E p \in Procs : CleanupRows(p)

SpecStoreConsistent == InitStoreConsistent /\ [][NextStoreConsistent]_vars

\* The store at the start of a retention sweep: as InitStore, each row
\* last accessed before or after the cutoff.
InitSweep ==
  /\ \E a \in { f \in [Hashes -> UNION { InitArtefacts(h) : h \in Hashes }] :
                   /\ \A h \in Hashes : f[h] \in InitArtefacts(h)
                   /\ InitRank(f["hw"]) <= InitRank(f["hv"]) } :
       /\ final = [h \in Hashes |-> a[h].blob]
       /\ metas = [h \in Hashes |->
                    { [id |-> HashIndex(h), ref_count |-> r.ref_count] : r \in a[h].row }]
       /\ expected = [h \in Hashes |->
                       IF a[h].row = {} THEN 0 ELSE (CHOOSE r \in a[h].row : TRUE).ref_count]
  /\ last_accessed_at \in [Hashes -> {"old", "recent"}]
  /\ \A h \in Hashes : metas[h] = {} => last_accessed_at[h] = "old"
  /\ sweep = IdleSweep
  /\ NoRegistry
  /\ next_id = Cardinality(Hashes) + 1
  /\ NoStoreCall
  /\ NoCall
  /\ raised = {}
  /\ arg_inputs = [manifest |-> EmptyMap, output_artefacts |-> EmptyMap, node_id |-> None]
  /\ child = NoChild
  /\ sb = NoSandbox
  /\ step_run = NoStepRun
  /\ pipeline = CreatedPipeline(NoGraph)
  /\ upd_pc = "idle"
  /\ edits = 0
  /\ run = [status |-> None, execution_mode |-> None,
            input_manifest |-> EmptyMap, output_artefacts |-> EmptyMap]
  /\ steps = EmptyMap
  /\ snapshot = NoGraph
  /\ cx = "idle"
  /\ sx = [pc |-> "idle", graph |-> NoGraph, output_artefacts |-> EmptyMap,
           order |-> <<>>, idx |-> 0]
  /\ master = "idle"
  /\ jobs = EmptyMap
  /\ finalize_queue = 0

\* The retention sweep, while another process accesses artefacts and adds
\* and drops references.
NextSweep ==
  \/ SweepSelect
  \/ SweepDeleteLoad
  \/ SweepDeleteBlob
  \/ SweepDeleteRow
  \/ SweepFinish
  \/ TouchArtefact
  \/ RefLoad("p2")
  \/ RefUpdate("p2")

SpecSweep == InitSweep /\ [][NextSweep]_vars

\* ------------------------------------------------------------------ claims

\* Graph-theoretic vocabulary of the claims, independent of the algorithms.
Succ(graph, u) == { graph.edges[i].to : i \in { j \in DOMAIN graph.edges : graph.edges[j].from = u } }

RECURSIVE ReachWithin(_, _, _)
ReachWithin(graph, u, k) ==
  IF k = 0 THEN {}
  ELSE LET r == ReachWithin(graph, u, k - 1) IN
       Succ(graph, u) \cup r \cup UNION { Succ(graph, v) : v \in r }

\* The nodes reachable from u by a path of at least one edge.
ReachPlus(graph, u) == ReachWithin(graph, u, Len(graph.nodes) + 1)

HasCycle(graph) == \E u \in NodeIdsOf(graph) : u \in ReachPlus(graph, u)

\* The edge (u, v) lies on a cycle: v leads back to u.
OnCycle(graph, u, v) ==
  /\ \E i \in DOMAIN graph.edges : graph.edges[i].from = u /\ graph.edges[i].to = v
  /\ (u = v \/ u \in ReachPlus(graph, v))

\* The structural checks of validation pass: distinct ids, a feature
\* reference on every node (a hash must be in the catalog), declared endpoints.
WellFormed(graph) ==
  /\ \A i, j \in DOMAIN graph.nodes : graph.nodes[i].id = graph.nodes[j].id => i = j
  /\ \A i \in DOMAIN graph.nodes :
       /\ graph.nodes[i].id \notin {"", None}
       /\ graph.nodes[i].feature_name # None \/ graph.nodes[i].feature_hash # None
       /\ graph.nodes[i].feature_hash # None
            => \E f \in FeatureCatalog : f.hash = graph.nodes[i].feature_hash
  /\ \A i \in DOMAIN graph.edges :
       graph.edges[i].from \in NodeIdsOf(graph) /\ graph.edges[i].to \in NodeIdsOf(graph)

Positions(seq, x) == { i \in DOMAIN seq : seq[i] = x }

\* C1: for every acyclic graph, topological_sort returns (does not raise) a
\* list that holds every node id exactly once and in which the source of
\* every edge stands at a strictly smaller position than its target.
C1_TopologicalOrder ==
  (called = "topological_sort" /\ ~HasCycle(arg_graph)) =>
    /\ ~ret.raised
    /\ \A n \in NodeIdsOf(arg_graph) : Cardinality(Positions(ret.order, n)) = 1
    /\ Range(ret.order) = NodeIdsOf(arg_graph)
    /\ \A i \in DOMAIN arg_graph.edges :
         \A p \in Positions(ret.order, arg_graph.edges[i].from) :
           \A q \in Positions(ret.order, arg_graph.edges[i].to) : p < q

\* C1 witness: a sorted three-node graph whose order is not the node order
\* (the edge c -> b forces c before b).
C1_Witness ==
  /\ called = "topological_sort"
  /\ ~HasCycle(arg_graph)
  /\ Len(arg_graph.nodes) = 3
  /\ \E i \in DOMAIN arg_graph.edges :
       arg_graph.edges[i].from = "c" /\ arg_graph.edges[i].to = "b"
  /\ ~ret.raised
  /\ ret.order = <<"a", "c", "b">>

LayersOf(layers, x) == { i \in DOMAIN layers : x \in Range(layers[i]) }

\* C2: for every acyclic graph, get_execution_layers puts the source of
\* every edge in a strictly earlier layer than its target, and no two nodes
\* of one layer are connected by a path.
C2_LayersRespectEdges ==
  (called = "get_execution_layers" /\ ~HasCycle(arg_graph)) =>
    /\ ~ret.raised
    /\ \A i \in DOMAIN arg_graph.edges :
         /\ LayersOf(ret.layers, arg_graph.edges[i].from) # {}
         /\ LayersOf(ret.layers, arg_graph.edges[i].to) # {}
         /\ \A p \in LayersOf(ret.layers, arg_graph.edges[i].from) :
              \A q \in LayersOf(ret.layers, arg_graph.edges[i].to) : p < q
    /\ \A k \in DOMAIN ret.layers :
         \A u, v \in Range(ret.layers[k]) : v \notin ReachPlus(arg_graph, u)

\* C2 witness: the layering A -> C, B -> C of the specification, [[a, b], [c]].
C2_Witness ==
  /\ called = "get_execution_layers"
  /\ [i \in DOMAIN arg_graph.edges |-> <<arg_graph.edges[i].from, arg_graph.edges[i].to>>]
       = << <<"a", "c">>, <<"b", "c">> >>
  /\ ret.layers = << <<"a", "b">>, <<"c">> >>

\* C3: for every structurally well-formed graph with a cycle, validate_graph
\* returns valid = false and an error "Cycle detected" whose path has a
\* consecutive pair of nodes that is an edge lying on a cycle of the graph.
C3_CycleReported ==
  (called = "validate_graph" /\ WellFormed(arg_graph) /\ HasCycle(arg_graph)) =>
    /\ ret.valid = FALSE
    /\ \E e \in DOMAIN ret.errors :
         /\ ret.errors[e].kind = "Cycle detected"
         /\ \E i \in 1..(Len(ret.errors[e].path) - 1) :
              OnCycle(arg_graph, ret.errors[e].path[i], ret.errors[e].path[i + 1])

\* C3 witness: nodes [a, b] with edges (a, b), (b, a) report the path a -> b -> a.
C3_Witness ==
  /\ called = "validate_graph"
  /\ WellFormed(arg_graph)
  /\ Len(arg_graph.nodes) = 2
  /\ [i \in DOMAIN arg_graph.edges |-> <<arg_graph.edges[i].from, arg_graph.edges[i].to>>]
       = << <<"a", "b">>, <<"b", "a">> >>
  /\ ret.valid = FALSE
  /\ ret.errors = << Err("Cycle detected", None, 0, <<"a", "b", "a">>) >>

\* The status execute_sync and the finalize check are to compute.
ExpectedStatus ==
  IF \E n \in DOMAIN steps : steps[n].status = "FAILED" THEN "FAILED" ELSE "SUCCESS"

\* C4: at the moment execute_sync returns normally the run is FAILED if one of
\* its steps is FAILED and SUCCESS otherwise; and a step has started only
\* after execute_sync took the run out of PENDING (mark_running).
C4_SyncRunStatus ==
  /\ [][(sx.pc # "returned" /\ sx'.pc = "returned") => run'.status = ExpectedStatus']_vars
  /\ [](\A n \in DOMAIN steps :
         steps[n].attempts > 0 =>
           sx.pc \in {"loop", "step", "returned", "raised"} /\ run.status # "PENDING")

\* C4 witness: execute_sync returned a FAILED run with one step FAILED and
\* another SUCCESS.
C4_Witness ==
  /\ sx.pc = "returned"
  /\ run.status = "FAILED"
  /\ \E n, k \in DOMAIN steps : steps[n].status = "FAILED" /\ steps[k].status = "SUCCESS"

\* C5: when execute_sync has ended, every step of the run was attempted
\* exactly once and is SUCCESS or FAILED.
C5_EveryStepAttemptedOnce ==
  sx.pc \in {"returned", "raised"} =>
    \A n \in DOMAIN steps :
      steps[n].attempts = 1 /\ steps[n].status \in {"SUCCESS", "FAILED"}

\* C6: once the run is finalized, every step that transitively depends on a
\* FAILED step is SKIPPED (here for the synchronous mode, in a run whose
\* nodes all have a StepRun).
C6_DependentsOfFailedSkipped ==
  (sx.pc = "returned" /\ run.status \in {"SUCCESS", "FAILED"}
     /\ NodeIdsOf(snapshot) \subseteq DOMAIN steps) =>
    \A a, b \in DOMAIN steps :
      (steps[a].status = "FAILED" /\ b \in ReachPlus(snapshot, a)) =>
        steps[b].status = "SKIPPED"

\* Every direct dependency of the node has a StepRun in status SUCCESS.
DependenciesSucceeded(node_id) ==
  \A d \in Range(get_node_dependencies(pipeline.graph, node_id)) :
    d \in DOMAIN steps /\ steps[d].status = "SUCCESS"

\* C7: a step's job that makes its check runs the step (RUNNING, attempts
\* incremented) only if every direct dependency is SUCCESS at that moment;
\* otherwise it marks the step SKIPPED, leaves attempts unchanged and ends
\* without invoking the sandbox.
C7_DependencyGate ==
  [][\A n \in DOMAIN steps :
       (n \in DOMAIN jobs /\ jobs[n].pc = "queued" /\ jobs'[n] # jobs[n]) =>
         IF DependenciesSucceeded(n)
           THEN /\ jobs'[n].pc = "running"
                /\ steps'[n].status = "RUNNING"
                /\ steps'[n].attempts = steps[n].attempts + 1
           ELSE /\ jobs'[n].pc = "done"
                /\ steps'[n].status = "SKIPPED"
                /\ steps'[n].attempts = steps[n].attempts]_vars

\* No task of the run is queued or in flight.
Quiescent ==
  /\ master = "done"
  /\ \A n \in DOMAIN jobs : jobs[n].pc = "done"
  /\ finalize_queue = 0
  /\ cx = "idle"

\* C8: in asynchronous mode, once every step is terminal and no task is left
\* to run, the run has left RUNNING with the status the sync path computes
\* (here for a run with at least one step, whose nodes all have a StepRun,
\* and that was not cancelled).
C8_FinalizedAfterCompletion ==
  (Quiescent /\ steps # EmptyMap /\ NodeIdsOf(snapshot) \subseteq DOMAIN steps
     /\ run.status # "CANCELLED"
     /\ \A n \in DOMAIN steps : steps[n].status \in {"SUCCESS", "FAILED", "SKIPPED"}) =>
    run.status = ExpectedStatus

\* C9: when two steps of the run have both completed successfully,
\* output_artefacts holds the entry of each of them.
C9_NoLostOutput ==
  \A a, b \in DOMAIN steps :
    (a # b /\ a \in DOMAIN jobs /\ b \in DOMAIN jobs
       /\ jobs[a].result = "success" /\ jobs[b].result = "success") =>
      /\ a \in DOMAIN run.output_artefacts
      /\ b \in DOMAIN run.output_artefacts

\* The edges into a node, as (source, in_port) pairs in edge order.
IncomingEdges(graph, node_id) ==
  LET es == SelectSeq(graph.edges, LAMBDA e : e.to = node_id) IN
  [i \in DOMAIN es |-> <<es[i].from, es[i].in_port>>]

\* C10: the nodes a run executes, their order and the edges that bind
\* upstream artefacts to input ports are those of the graph as create_run
\* read it, whatever updates the pipeline's graph gets afterwards.
C10_RunUsesSnapshot ==
  sx.pc \in {"loop", "step", "returned"} =>
    /\ sx.order = topological_sort(snapshot).order
    /\ \A n \in NodeIdsOf(snapshot) :
         IncomingEdges(sx.graph, n) = IncomingEdges(snapshot, n)

C12_FailedAtMaxAttempts ==
  sx.pc = "returned" =>
    \A n \in DOMAIN steps :
      steps[n].status = "FAILED" => steps[n].attempts = max_attempts

\* C20: cancel_run on a PENDING or RUNNING run flips the PENDING steps to
\* SKIPPED, then the RUNNING steps to FAILED, leaving every other step as it
\* is, then sets the run CANCELLED; when it returns no step of the run is
\* PENDING or RUNNING.
C20_CancelFlipsSteps ==
  [][/\ (cx = "idle" /\ cx' = "fail") =>
          \A n \in DOMAIN steps :
            steps'[n] = IF steps[n].status = "PENDING"
                          THEN [steps[n] EXCEPT !.status = "SKIPPED"] ELSE steps[n]
     /\ (cx = "fail" /\ cx' = "mark") =>
          \A n \in DOMAIN steps :
            steps'[n] = IF steps[n].status = "RUNNING"
                          THEN [steps[n] EXCEPT !.status = "FAILED"] ELSE steps[n]
     /\ (cx = "mark" /\ cx' = "idle") =>
          /\ run'.status = "CANCELLED"
          /\ \A n \in DOMAIN steps : steps'[n].status \notin {"PENDING", "RUNNING"}]_vars

\* ------------------------------------------------------------ artefact store

\* C13: the ref_count of an artefact's metadata row is never negative.
C13_RefCountNonNegative ==
  \A h \in Hashes : \A r \in metas[h] : r.ref_count >= 0

\* C14: delete_artefact without force on an artefact with ref_count > 0 raises
\* ValueError and leaves blob and row as they were; with force, or with
\* ref_count <= 0, it does not raise, and when it returns the blob and the
\* row are both gone.
C14_DeleteRefusesReferenced ==
  [][\A p \in Procs : procs'[p].op = "delete_artefact" =>
       LET h == procs'[p].h IN
       /\ (procs[p].pc \in {"idle", "done"} /\ procs'[p] # procs[p] /\ metas[h] # {}) =>
            IF ~procs'[p].force /\ Row(h).ref_count > 0
              THEN /\ procs'[p].pc = "done" /\ procs'[p].ret = "ValueError"
                   /\ final' = final /\ metas' = metas
              ELSE procs'[p].pc = "blob"
       /\ (procs[p].pc = "row" /\ procs'[p].pc = "done") =>
            /\ procs'[p].ret = "True"
            /\ final'[h] = "absent" /\ metas'[h] = {}]_vars

\* A delete without force was refused on an artefact with ref_count 2, whose
\* blob and row are still there.
C14_Witness ==
  \E h \in Hashes :
    /\ procs["p1"] = [IdleProc EXCEPT !.op = "delete_artefact", !.pc = "done", !.h = h,
                                      !.ret = "ValueError"]
    /\ final[h] = "complete"
    /\ \E r \in metas[h] : r.ref_count = 2

\* C15: reference-count updates are atomic. Whatever the interleaving of the
\* increment_ref and decrement_ref calls on an artefact, each from its own
\* loaded copy, the stored ref_count is the row's initial value plus the
\* increments minus the decrements made: no update is lost.
C15_NoLostRefUpdate ==
  \A h \in Hashes : \A r \in metas[h] : r.ref_count = expected[h]

\* One process has incremented the count of an artefact that another process
\* loaded before and is about to update from its now stale copy.
C15_Witness ==
  \E h \in Hashes :
    /\ procs["p2"].op = "increment_ref" /\ procs["p2"].pc = "done"
    /\ procs["p2"].h = h /\ procs["p2"].ret = None
    /\ procs["p1"].op \in {"increment_ref", "decrement_ref"} /\ procs["p1"].pc = "update"
    /\ procs["p1"].h = h
    /\ \E r \in metas[h] : \E k \in procs["p1"].held :
         r.id = k.id /\ r.ref_count = k.ref_count + 1

\* C16: storing identical content is idempotent. When a create_artefact of a
\* content returns after an earlier create_artefact of the same content,
\* nothing of it deleted in between, there is exactly one blob file and one
\* metadata row for the content, the call returns the content's hash as the
\* earlier one did, and it wrote no blob bytes.
C16_PutIdempotent ==
  \A p \in Procs :
    LET h == procs[p].h IN
    (procs[p].op = "create_artefact" /\ procs[p].pc = "done" /\ procs[p].ret = h
       /\ puts[h] >= 2) =>
      /\ final[h] = "complete" /\ tmp[h] = "absent"
      /\ Cardinality(metas[h]) = 1
      /\ ~procs[p].wrote

\* The second create_artefact of a content has returned.
C16_Witness ==
  \E h \in Hashes :
    /\ procs["p1"].op = "create_artefact" /\ procs["p1"].pc = "done"
    /\ procs["p1"].h = h /\ procs["p1"].ret = h
    /\ puts[h] = 2 /\ ops_started = 2

\* C17: each put of a content contributes one reference. After two
\* create_artefact calls of the same content and no other operation, the
\* artefact's ref_count is 2 more than before the first (2 for a row the
\* first call created).
C17_PutsCounted ==
  \A h \in Hashes :
    (ops_started = 2 /\ puts[h] = 2 /\ procs["p1"].pc = "done") =>
      \A r \in metas[h] : r.ref_count = expected[h] + 2

\* C18: at every moment, also while several writers store the same hash and
\* when a write fails midway, the file at a blob's final path is absent or
\* holds the complete payload.
C18_NoPartialBlobVisible ==
  \A h \in Hashes : final[h] \in {"absent", "complete"}

\* C19: cleanup_orphans, with no other store operation in progress, deletes
\* the blobs without metadata row, then the metadata rows without blob, and
\* touches nothing else; when it returns, the hashes with a blob are the
\* hashes with a row, and the pair returned counts the blobs and the rows
\* deleted.
C19_CleanupReconciles ==
  [][\A p \in Procs : procs'[p].op = "cleanup_orphans" =>
       /\ (procs[p].pc \in {"idle", "done"} /\ procs'[p] # procs[p]) =>
            final' = final /\ metas' = metas /\ procs'[p].pc = "files"
       /\ (procs[p].pc = "files" /\ procs'[p].pc # "files") =>
            LET blobs == { h \in Hashes : final[h] # "absent" /\ metas[h] = {} } IN
            /\ final' = [h \in Hashes |-> IF h \in blobs THEN "absent" ELSE final[h]]
            /\ metas' = metas
            /\ procs'[p].fs_orphans = Cardinality(blobs)
       /\ (procs[p].pc = "rows" /\ procs'[p].pc # "rows") =>
            LET lost == { h \in Hashes : metas[h] # {} /\ final[h] = "absent" } IN
            /\ metas' = [h \in Hashes |-> IF h \in lost THEN {} ELSE metas[h]]
            /\ final' = final
            /\ procs'[p].pc = "done" /\ procs'[p].ret = "tuple"
            /\ procs'[p].fs_orphans = procs[p].fs_orphans
            /\ procs'[p].db_orphans = Cardinality(lost)
            /\ { h \in Hashes : final'[h] # "absent" } = { h \in Hashes : metas'[h] # {} }]_vars

\* cleanup_orphans has returned (1, 1): it deleted one blob without row and
\* one row without blob.
C19_Witness ==
  /\ procs["p1"].op = "cleanup_orphans" /\ procs["p1"].pc = "done"
  /\ procs["p1"].ret = "tuple"
  /\ procs["p1"].fs_orphans = 1 /\ procs["p1"].db_orphans = 1

\* ------------------------------------------------------- refused requests

\* C21: cancel_run on a run that is SUCCESS, FAILED or CANCELLED raises an
\* error and leaves the run's status and every step's status unchanged: the
\* request does not get past its check, raising is what it can do, and the
\* raise changes neither the run nor the steps.
C21_CancelRefusedOnTerminal ==
  /\ [][/\ (cx = "idle" /\ run.status \in {"SUCCESS", "FAILED", "CANCELLED"}) => cx' = "idle"
        /\ ("cancel_run" \notin raised /\ "cancel_run" \in raised') =>
             /\ run.status \in {"SUCCESS", "FAILED", "CANCELLED"}
             /\ run' = run /\ steps' = steps]_vars
  /\ []((cx = "idle" /\ run.status \in {"SUCCESS", "FAILED", "CANCELLED"}) =>
          ENABLED CancelRaise)

\* cancel_run has raised on a run that ended SUCCESS, its steps all SUCCESS.
C21_Witness ==
  /\ "cancel_run" \in raised
  /\ run.status = "SUCCESS"
  /\ DOMAIN steps # {}
  /\ \A n \in DOMAIN steps : steps[n].status = "SUCCESS"

\* C22: create_run on a pipeline with is_valid = false or is_active = false
\* raises an error and creates no PipelineRun and no StepRun; on a valid,
\* active pipeline it persists a run in status PENDING.
C22_CreateRunGuard ==
  /\ [][/\ (run.status = None /\ run'.status # None) =>
             /\ pipeline.is_valid /\ pipeline.is_active
             /\ run'.status = "PENDING"
        /\ ("create_run" \notin raised /\ "create_run" \in raised') =>
             /\ ~(pipeline.is_valid /\ pipeline.is_active)
             /\ run' = run /\ steps' = steps
             /\ run.status = None /\ steps = EmptyMap]_vars
  /\ [](run.status = None =>
          IF pipeline.is_valid /\ pipeline.is_active
            THEN ENABLED CreateRun("sync") /\ ~ENABLED CreateRunRaise
            ELSE ENABLED CreateRunRaise /\ ~ENABLED CreateRun("sync"))

\* create_run has raised on an active pipeline that is invalid.
C22_Witness ==
  /\ "create_run" \in raised
  /\ pipeline.is_active /\ ~pipeline.is_valid
  /\ run.status = None

\* C23: when a step is executed and some edge into its node has a source
\* with no entry in output_artefacts, the step fails as a whole: it ends
\* FAILED and the feature is not invoked (no inputs are bound for it).
C23_MissingUpstreamIsFatal ==
  [][(sx.pc = "step" /\ sx'.pc # "step") =>
       LET node_id == sx.order[sx.idx] IN
       (\E i \in DOMAIN sx.graph.edges :
          /\ sx.graph.edges[i].to = node_id
          /\ sx.graph.edges[i].from \notin DOMAIN sx.output_artefacts) =>
         /\ steps'[node_id].status = "FAILED"
         /\ steps'[node_id].bound = None]_vars

\* ------------------------------------------------------------ _resolve_inputs

\* The port an edge binds, the resolved edges into the node resolved, and
\* the node's bindings in the manifest.
PortOf(e) == IF e.in_port = None THEN "input" ELSE e.in_port
ResolvedEdges ==
  { i \in DOMAIN arg_graph.edges :
      /\ arg_graph.edges[i].to = arg_inputs.node_id
      /\ arg_graph.edges[i].from \in DOMAIN arg_inputs.output_artefacts }
ManifestOf ==
  IF arg_inputs.node_id \in DOMAIN arg_inputs.manifest
    THEN arg_inputs.manifest[arg_inputs.node_id] ELSE EmptyMap

\* C24 as stated: resolve_inputs returns the manifest bindings of the node
\* in which the in_port of every resolved edge into the node is bound to that
\* edge's upstream artefact, overriding the manifest; the other manifest
\* bindings are kept.
C24_EveryEdgeBound ==
  called = "resolve_inputs" =>
    /\ DOMAIN ret = DOMAIN ManifestOf \cup { PortOf(arg_graph.edges[i]) : i \in ResolvedEdges }
    /\ \A i \in ResolvedEdges :
         ret[PortOf(arg_graph.edges[i])] = arg_inputs.output_artefacts[arg_graph.edges[i].from]
    /\ \A p \in DOMAIN ManifestOf :
         (\A i \in ResolvedEdges : PortOf(arg_graph.edges[i]) # p) => ret[p] = ManifestOf[p]

\* C24, amended: resolve_inputs returns the manifest bindings of the node in
\* which every port targeted by a resolved edge into the node is bound to the
\* upstream artefact of the last such edge of the edge list, overriding the
\* manifest; the other manifest bindings are kept.
C24_LastEdgeBound ==
  called = "resolve_inputs" =>
    /\ DOMAIN ret = DOMAIN ManifestOf \cup { PortOf(arg_graph.edges[i]) : i \in ResolvedEdges }
    /\ \A i \in ResolvedEdges :
         (\A j \in ResolvedEdges :
            PortOf(arg_graph.edges[j]) = PortOf(arg_graph.edges[i]) => j <= i) =>
           ret[PortOf(arg_graph.edges[i])] = arg_inputs.output_artefacts[arg_graph.edges[i].from]
    /\ \A p \in DOMAIN ManifestOf :
         (\A i \in ResolvedEdges : PortOf(arg_graph.edges[i]) # p) => ret[p] = ManifestOf[p]

\* resolve_inputs has returned for node c, whose manifest binds "input" and "x",
\* with resolved edges from a and from b both into port "x".
C24_Witness ==
  /\ called = "resolve_inputs"
  /\ arg_inputs.node_id = "c"
  /\ DOMAIN ManifestOf = {"input", "x"}
  /\ \E i, j \in ResolvedEdges :
       /\ arg_graph.edges[i].from = "a" /\ arg_graph.edges[j].from = "b"
       /\ PortOf(arg_graph.edges[i]) = "x" /\ PortOf(arg_graph.edges[j]) = "x"

\* ------------------------------------------------- feature references

\* C25: every node of a pipeline with is_valid = TRUE has a feature
\* reference, by feature_hash or by feature_name, that resolves in the
\* feature catalog (validate_graph reports an error for any that does not).
C25_ValidMeansResolvable ==
  pipeline.is_valid =>
    \A i \in DOMAIN pipeline.graph.nodes : FeatureResolves(pipeline.graph.nodes[i])

\* ------------------------------------------------------------- the sandbox

\* The cause of a child's failure.
CauseOf(c) ==
  IF c.timed_out THEN "Timeout"
  ELSE IF c.returncode # 0 THEN "NonZeroExit"
  ELSE IF ~c.output THEN "NoOutput"
  ELSE "None"

\* C26: execute_feature returns a result iff the child exits with code 0
\* within the timeout and the output file exists; otherwise it raises, with a
\* message no child failing for another cause gets, and after a timeout it
\* returns no output even if the output file exists.
C26_SandboxOutcome ==
  called = "execute_feature" =>
    /\ sb.kind \in {"return", "raise"}
    /\ sb.kind = "return" <=>
         (~child.timed_out /\ child.returncode = 0 /\ child.output)
    /\ sb.kind = "return" => sb.result = "bytes"
    /\ sb.kind = "raise" =>
         /\ sb.result = ""
         /\ \A c \in Children :
              (CauseOf(c) # "None" /\ CauseOf(c) # CauseOf(child)) =>
                execute_feature(c).text # sb.text

\* execute_feature has raised for a child that ran into the timeout after
\* it had written the output file and some stdout.
C26_Witness ==
  /\ called = "execute_feature"
  /\ child.timed_out /\ child.output /\ child.stdout = "out"
  /\ sb.kind = "raise"

\* C27: a failed step's StepRun record holds the error text and the stdout
\* and stderr captured from the child, in its stdout and stderr fields or in
\* the error text, whatever the cause of the failure.
C27_FailureKeepsOutput ==
  (called = "_execute_step" /\ step_run.status = "FAILED") =>
    /\ step_run.error.text # ""
    /\ step_run.stdout = child.stdout \/ step_run.error.detail = <<child.stdout, child.stderr>>
    /\ step_run.stderr = child.stderr \/ step_run.error.detail = <<child.stdout, child.stderr>>

\* ------------------------------------------------------ the retention sweep

\* C28: every artefact whose blob or row the retention sweep deletes has, at
\* the moment of that deletion, ref_count = 0 and a last_accessed_at before
\* the cutoff, also when it is referenced or accessed after the selection.
C28_SweepDeletesOnlyEligible ==
  [][(sweep.pc \in {"blob", "row"} /\ sweep' # sweep /\ metas[sweep.h] # {}) =>
       /\ Row(sweep.h).ref_count = 0
       /\ last_accessed_at[sweep.h] = "old"]_vars

\* ------------------------------------------------------ finalized runs

\* C29: a run whose status is SUCCESS or FAILED has no step in status
\* PENDING or RUNNING.
C29_FinalizedRunHasNoOpenStep ==
  run.status \in {"SUCCESS", "FAILED"} =>
    \A n \in DOMAIN steps : steps[n].status \notin {"PENDING", "RUNNING"}

\* C30: once a run's status is CANCELLED it never changes again.
C30_CancelledIsFinal ==
  [][run.status = "CANCELLED" => run'.status = "CANCELLED"]_vars

\* ------------------------------------------------------ terminal steps

\* C31: a step that is SKIPPED or SUCCESS never changes status afterwards.
C31_SkippedAndSuccessAreFinal ==
  [][\A n \in DOMAIN steps :
       steps[n].status \in {"SKIPPED", "SUCCESS"} =>
         /\ n \in DOMAIN steps'
         /\ steps'[n].status = steps[n].status]_vars

\* ------------------------------------------------- asynchronous success

\* C32: in asynchronous mode, for a run with a StepRun for every node of
\* its graph, when the run is over (every job dispatched has ended and no
\* finalize check is queued) and no feature invocation has failed (no job was
\* retried, no step is FAILED), every node of the graph has a SUCCESS step
\* and an output_artefacts entry and the run is SUCCESS.
C32_AsyncAllSucceed ==
  (/\ run.execution_mode = "async"
   /\ DOMAIN steps = { pipeline.graph.nodes[i].id : i \in DOMAIN pipeline.graph.nodes }
   /\ DOMAIN steps # {}
   /\ master = "done"
   /\ finalize_queue = 0
   /\ \A n \in DOMAIN jobs : jobs[n].pc = "done" /\ jobs[n].retries = 0
   /\ \A n \in DOMAIN steps : steps[n].status # "FAILED") =>
    /\ \A i \in DOMAIN pipeline.graph.nodes :
         LET n == pipeline.graph.nodes[i].id IN
         /\ n \in DOMAIN steps /\ steps[n].status = "SUCCESS"
         /\ n \in DOMAIN run.output_artefacts
    /\ run.status = "SUCCESS"

\* ------------------------------------------------- references of runs

\* C33: while the run's output_artefacts, or a SUCCESS step, references the
\* artefact of hash h, that artefact's row has ref_count >= 1.
C33_ReferencedIsCounted ==
  /\ \A n \in DOMAIN run.output_artefacts :
       \A r \in metas[run.output_artefacts[n]] : r.ref_count >= 1
  /\ \A n \in DOMAIN steps :
       (steps[n].status = "SUCCESS" /\ steps[n].artefact # None) =>
         \A r \in metas[steps[n].artefact] : r.ref_count >= 1

\* C33, the consequence: delete_artefact without force removes neither the
\* blob nor the row of an artefact the run's output_artefacts references.
C33_ReferencedIsKept ==
  [][\A p \in Procs :
       (/\ procs[p].op = "delete_artefact" /\ ~procs[p].force
        /\ procs[p].pc \in {"blob", "row"}
        /\ procs'[p] # procs[p]) =>
         \A n \in DOMAIN run.output_artefacts : run.output_artefacts[n] # procs[p].h]_vars

\* ------------------------------------------------- blobs and rows agree

\* C34: when no store operation is in progress, every metadata row has a
\* blob file and every blob file has a metadata row.
C34_RowsAndBlobsAgree ==
  (\A p \in Procs : procs[p].pc \in {"idle", "done"}) =>
    \A h \in Hashes : (metas[h] # {}) <=> (final[h] # "absent")


\* C35: two create_artefact calls for the same content, the only operations
\* run on a consistent store and neither hit by a failing disk write, both
\* return the hash and leave one complete blob and one metadata row.
C35_ConcurrentCreateDeduplicates ==
  (/\ ops_started = 2
   /\ \A p \in Procs : /\ procs[p].op = "create_artefact"
                       /\ procs[p].pc = "done"
                       /\ procs[p].ret # "IOError"
   /\ procs["p1"].h = procs["p2"].h
   /\ ~TooLarge(procs["p1"].h)) =>
    LET h == procs["p1"].h IN
      /\ \A p \in Procs : procs[p].ret = h
      /\ final[h] = "complete"
      /\ Cardinality(metas[h]) = 1

\* C36: in every state, a pipeline whose is_valid flag is set has a stored
\* graph that passes validate_graph and has no cycle.
C36_ValidFlagMatchesGraph ==
  pipeline.is_valid =>
    /\ validate_graph(pipeline.graph).valid
    /\ ~HasCycle(pipeline.graph)

\* The sources of the edges into n.
Preds(graph, n) ==
  { graph.edges[i].from : i \in { j \in DOMAIN graph.edges : graph.edges[j].to = n } }

\* The number of edges of the longest path of an acyclic graph that ends in n.
RECURSIVE LongestPathTo(_, _)
LongestPathTo(graph, n) ==
  IF Preds(graph, n) = {} THEN 0
  ELSE LET d == { LongestPathTo(graph, p) : p \in Preds(graph, n) }
       IN 1 + (CHOOSE x \in d : \A y \in d : y <= x)

\* The places (layer, position) at which the layers list x.
PlacesOf(layers, x) ==
  UNION { { <<k, j>> : j \in { i \in DOMAIN layers[k] : layers[k][i] = x } } :
          k \in DOMAIN layers }

\* C37: for every acyclic graph, get_execution_layers returns layers without
\* an empty one that list every node exactly once and nothing else, the first
\* layer is the set of nodes without an incoming edge, and a node's layer
\* index is the length of the longest path that ends in it.
C37_LayersPartitionByDepth ==
  (called = "get_execution_layers" /\ ~HasCycle(arg_graph)) =>
    /\ ~ret.raised
    /\ \A k \in DOMAIN ret.layers :
         ret.layers[k] # <<>> /\ Range(ret.layers[k]) \subseteq NodeIdsOf(arg_graph)
    /\ \A n \in NodeIdsOf(arg_graph) : Cardinality(PlacesOf(ret.layers, n)) = 1
    /\ (NodeIdsOf(arg_graph) # {}) =>
         Range(ret.layers[1]) = { n \in NodeIdsOf(arg_graph) : Preds(arg_graph, n) = {} }
    /\ \A k \in DOMAIN ret.layers :
         \A n \in Range(ret.layers[k]) : k - 1 = LongestPathTo(arg_graph, n)

\* C37 witness: in the graph a -> b, b -> c, a -> c the node c lies in the
\* third layer, the length of its longest path, not in the second.
C37_Witness ==
  /\ called = "get_execution_layers"
  /\ [i \in DOMAIN arg_graph.edges |-> <<arg_graph.edges[i].from, arg_graph.edges[i].to>>]
       = << <<"a", "b">>, <<"b", "c">>, <<"a", "c">> >>
  /\ ret.layers = << <<"a">>, <<"b">>, <<"c">> >>

\* C38: on every graph that contains a cycle topological_sort raises, and an
\* order it returns holds every node of the graph.
C38_CycleRaises ==
  called = "topological_sort" =>
    /\ HasCycle(arg_graph) => ret.raised
    /\ ~ret.raised => NodeIdsOf(arg_graph) \subseteq Range(ret.order)

\* C39: after clear(), and until the next register, the registry is empty:
\* is_loaded is false and get returns nothing for every key, name or hash.
C39_ClearEmpties ==
  reg_call.op = "clear" =>
    \A k \in FeatureKeys : ~is_loaded(registry, k) /\ get(registry, k) = NoFeatureDef

\* C40: unregister(key) leaves is_loaded(key) false, and every key that
\* retrieved a feature other than the one key designates retrieves it still.
C40_UnregisterRemovesOnlyTheKey ==
  [][(reg_call'.op = "unregister" /\ fvars' # fvars) =>
       LET key == reg_call'.key
           designated == get(registry, key)
       IN /\ ~is_loaded(registry', key)
          /\ \A k \in FeatureKeys :
               (is_loaded(registry, k) /\ get(registry, k) # designated) =>
                 get(registry', k) = get(registry, k)]_vars

====
